---- MODULE Spec2Model ----
(***************************************************************************)
(* The CFD lifecycle engine of the taker daemon: the event-sourced Cfd     *)
(* aggregate (daemon/src/model/cfd.rs), the event store (daemon/src/db.rs),*)
(* the taker CFD actor (daemon/src/taker_cfd.rs) and the auto-rollover     *)
(* driver (daemon/src/auto_rollover.rs).                                   *)
(*                                                                         *)
(* FoldSpec folds arbitrary event sequences onto a freshly created Cfd.    *)
(* Spec runs the actors against the event store.                           *)
(***************************************************************************)
EXTENDS Integers, Sequences, FiniteSets, TLC

\* ------------------------------------------------------------------ bounds

\* Longest event sequence folded by FoldSpec.
MaxEvents == 3
\* Number of distinct Dlc values (a setup or a rollover produces one).
NumDlcs == 2
\* Number of order ids the maker offers.
NumOrders == 2
\* Longest events table Spec fills.
MaxLog == 3
\* Most protocol actors Spec spawns.
MaxActors == 2
\* Amount units to the bitcoin: amounts are rounded to whole units.
AmountUnits == 100
\* Largest price, quantity and leverage ProfitSpec calculates a profit for.
MaxPrice == 13
MaxQuantity == 3
MaxLeverage == 3
\* Most rows DbSpec inserts into table cfds.
MaxCfds == 2
\* Longest events table RolloverSpec fills.
MaxRolloverLog == 4
\* Most instances of its child SupervisorSpec lets the supervisor construct.
MaxInstances == 3
\* Most TakerMessages ConnectionSpec submits to the maker's connection actor.
MaxMessages == 3
\* Longest list of events EligibilitySpec folds before it asks for a rollover.
MaxEligibilityLog == 2

\* ------------------------------------------------------------ basic values

\* Option<T>: None and Some(x).
None == <<>>
Some(x) == <<x>>

\* Result<T>: Ok(v) and Err(msg).
Ok(v) == [ok |-> TRUE, val |-> v]
Err(msg) == [ok |-> FALSE, err |-> msg]

\* A Dlc is identified by a number; its transactions are determined by it.
Dlcs == 1..NumDlcs

\* Dlc::signed_commit_tx, the commit transaction of a Dlc.
signed_commit_tx(dlc) == [tx |-> "commit", dlc |-> dlc]
\* The CET Dlc::signed_cet decrypts for an attestation the Dlc has CETs for.
signed_cet_tx(dlc) == [tx |-> "cet", dlc |-> dlc]
\* Dlc::signed_refund_tx.
signed_refund_tx(dlc) == [tx |-> "refund", dlc |-> dlc]
\* The spend transaction of a collaborative settlement of a Dlc.
spend_tx_of(dlc) == [tx |-> "spend", dlc |-> dlc]
\* The oracle event a Dlc settles on (Dlc.settlement_event_id); the Dlc holds
\* CETs for exactly this event id.
settlement_event_id(dlc) == dlc

\* ------------------------------------------------------------------ events

PlainEventNames ==
    { "ContractSetupFailed", "OfferRejected", "RolloverRejected", "RolloverFailed",
      "LockConfirmed", "CommitConfirmed", "CetConfirmed", "RefundConfirmed",
      "RevokeConfirmed", "CollaborativeSettlementConfirmed",
      "CetTimelockConfirmedPriorOracleAttestation" }

\* enum CfdEvent: every variant, with the payload the fold reads.
CfdEvent ==
    [name : PlainEventNames]
    \cup [name : {"ContractSetupCompleted", "RolloverCompleted"}, dlc : Dlcs]
    \cup { [name |-> "CollaborativeSettlementCompleted", spend_tx |-> spend_tx_of(d)] : d \in Dlcs }
    \cup { [name |-> n, commit_tx |-> signed_commit_tx(d)] :
             n \in {"CollaborativeSettlementRejected", "CollaborativeSettlementFailed"}, d \in Dlcs }
    \cup { [name |-> "CetTimelockConfirmedPostOracleAttestation", cet |-> signed_cet_tx(d)] : d \in Dlcs }
    \cup { [name |-> "RefundTimelockConfirmed", refund_tx |-> signed_refund_tx(d)] : d \in Dlcs }
    \cup { [name |-> "OracleAttestedPriorCetTimelock", timelocked_cet |-> signed_cet_tx(d),
            commit_tx |-> signed_commit_tx(d)] : d \in Dlcs }
    \cup { [name |-> "OracleAttestedPostCetTimelock", cet |-> signed_cet_tx(d)] : d \in Dlcs }
    \cup { [name |-> "ManualCommit", tx |-> signed_commit_tx(d)] : d \in Dlcs }

\* --------------------------------------------------------------- aggregate

\* The value of a fold that panicked: apply reached a todo!() arm and no
\* aggregate was produced.
Panic == [panic |-> TRUE]

\* A Duration is a number of minutes. Duration::hours:
hours(h) == h * 60
\* Duration::whole_hours: the number of whole hours of the duration.
whole_hours(d) == d \div 60

\* The static row FoldSpec folds onto (db::tests::Cfd::dummy): the taker's
\* long position, settlement interval 24 hours.
dummy_row ==
    [id |-> 1, position |-> "Long", initial_price |-> 60000, leverage |-> 2,
     settlement_interval |-> hours(24), quantity |-> 1000,
     counterparty_network_identity |-> "maker", role |-> "Taker"]

\* Cfd::new
new(row) ==
    [version |-> 0,
     id |-> row.id,
     position |-> row.position,
     initial_price |-> row.initial_price,
     leverage |-> row.leverage,
     settlement_interval |-> row.settlement_interval,
     quantity |-> row.quantity,
     counterparty_network_identity |-> row.counterparty_network_identity,
     role |-> row.role,
     dlc |-> None,
     cet |-> None,
     commit_tx |-> None,
     collaborative_settlement_spend_tx |-> None,
     refund_tx |-> None,
     lock_finality |-> FALSE,
     commit_finality |-> FALSE,
     refund_finality |-> FALSE,
     cet_finality |-> FALSE,
     collaborative_settlement_finality |-> FALSE,
     cet_timelock_expired |-> FALSE,
     refund_timelock_expired |-> FALSE]

\* The match of Cfd::apply on the event, run on the aggregate whose version
\* is already incremented; three arms are todo!() and panic.
apply_match(self, evt) ==
    LET n == evt.name
    IN  CASE n = "ContractSetupCompleted" -> [self EXCEPT !.dlc = Some(evt.dlc)]
          [] n = "OracleAttestedPostCetTimelock" -> [self EXCEPT !.cet = Some(evt.cet)]
          [] n = "OracleAttestedPriorCetTimelock" -> [self EXCEPT !.cet = Some(evt.timelocked_cet)]
          [] n = "ContractSetupFailed" -> self
          [] n = "RolloverCompleted" -> [self EXCEPT !.dlc = Some(evt.dlc)]
          [] n = "RolloverFailed" -> Panic
          [] n = "RolloverRejected" -> Panic
          [] n = "CollaborativeSettlementCompleted" ->
                [self EXCEPT !.collaborative_settlement_spend_tx = Some(evt.spend_tx)]
          [] n = "CollaborativeSettlementRejected" -> [self EXCEPT !.commit_tx = Some(evt.commit_tx)]
          [] n = "CollaborativeSettlementFailed" -> [self EXCEPT !.commit_tx = Some(evt.commit_tx)]
          [] n = "CetConfirmed" -> [self EXCEPT !.cet_finality = TRUE]
          [] n = "RefundConfirmed" -> [self EXCEPT !.refund_finality = TRUE]
          [] n = "CollaborativeSettlementConfirmed" ->
                [self EXCEPT !.collaborative_settlement_finality = TRUE]
          [] n = "RefundTimelockConfirmed" -> [self EXCEPT !.refund_timelock_expired = TRUE]
          [] n = "LockConfirmed" -> [self EXCEPT !.lock_finality = TRUE]
          [] n = "CommitConfirmed" -> [self EXCEPT !.commit_finality = TRUE]
          [] n \in {"CetTimelockConfirmedPriorOracleAttestation",
                    "CetTimelockConfirmedPostOracleAttestation"} ->
                [self EXCEPT !.cet_timelock_expired = TRUE]
          [] n = "OfferRejected" -> self
          [] n = "ManualCommit" -> [self EXCEPT !.commit_tx = Some(evt.tx)]
          [] n = "RevokeConfirmed" -> Panic

\* apply as it would be if the version were incremented only in the arms that
\* change the aggregate.
apply_counting_changes(cfd, evt) ==
    IF evt.name \in {"OfferRejected", "ContractSetupFailed"}
    THEN cfd
    ELSE apply_match([cfd EXCEPT !.version = @ + 1], evt)

\* apply as it would be if a rollover restarted the CET timelock.
apply_restarting_timelock(cfd, evt) ==
    LET c == apply_match([cfd EXCEPT !.version = @ + 1], evt)
    IN  IF evt.name = "RolloverCompleted"
        THEN [c EXCEPT !.cet_timelock_expired = FALSE]
        ELSE c

\* apply as it would be if a rollover kept the Dlc the aggregate holds.
apply_keeping_dlc(cfd, evt) ==
    LET c == apply_match([cfd EXCEPT !.version = @ + 1], evt)
    IN  IF evt.name = "RolloverCompleted" /\ cfd.dlc # None
        THEN [c EXCEPT !.dlc = cfd.dlc]
        ELSE c

\* Cfd::apply, the fold step: the version is incremented first, then the
\* event's arm runs.
apply(cfd, evt) == apply_match([cfd EXCEPT !.version = @ + 1], evt)

\* The fold as it would be if the events were applied newest first.
RECURSIVE fold_newest_first(_, _)
fold_newest_first(cfd, events) ==
    IF events = <<>> \/ cfd = Panic
    THEN cfd
    ELSE fold_newest_first(apply(cfd, events[Len(events)]),
                           SubSeq(events, 1, Len(events) - 1))

\* events.into_iter().fold(cfd, Cfd::apply): left to right; a panic in one
\* apply unwinds the whole fold.
RECURSIVE fold(_, _)
fold(cfd, events) ==
    IF events = <<>> \/ cfd = Panic
    THEN cfd
    ELSE fold(apply(cfd, Head(events)), Tail(events))

\* rehydrate over the fold that applies the newest event first.
rehydrate_newest_first(row, events) == fold_newest_first(new(row), events)

\* Cfd::rehydrate
rehydrate(row, events) == fold(new(row), events)

\* ---------------------------------------------------------------- numerics

\* Usd / Price and Usd * InversePrice: the bitcoin amount of a usd quantity
\* at a price, in whole amount units.
btc_amount(quantity, price) == (quantity * AmountUnits) \div price

\* calculate_long_margin: quantity / (price * leverage)
calculate_long_margin(price, quantity, leverage) == btc_amount(quantity, price * leverage)

\* calculate_short_margin: quantity / price
calculate_short_margin(price, quantity) == btc_amount(quantity, price)

\* closing_price <= calculate_long_liquidation_price(leverage, price), the
\* liquidation price being price * leverage / (leverage + 1).
long_is_liquidated(price, closing_price, leverage) ==
    closing_price * (leverage + 1) <= price * leverage

\* The payout of calculate_profit as it would be if the short side were not
\* capped at the pool when the long side is liquidated.
position_payout_uncapped(position, liquidated, long_margin, short_margin, amount_changed) ==
    IF position = "Long"
    THEN (IF liquidated THEN 0 ELSE long_margin + amount_changed)
    ELSE short_margin - amount_changed

\* The match on the position in calculate_profit: the payout of the position.
position_payout(position, liquidated, long_margin, short_margin, amount_changed) ==
    IF position = "Long"
    THEN (IF liquidated THEN 0 ELSE long_margin + amount_changed)
    ELSE (IF liquidated THEN long_margin + short_margin ELSE short_margin - amount_changed)

\* calculate_profit: the profit in amount units and the percentage of the
\* margin, kept as the fraction 100 * profit / margin. A price of zero has no
\* inverse; a margin of zero units has no percentage.
calculate_profit(initial_price, closing_price, quantity, leverage, position) ==
    IF initial_price = 0 \/ closing_price = 0
    THEN Err("cannot invert invalid price")
    ELSE LET long_margin == calculate_long_margin(initial_price, quantity, leverage)
             short_margin == calculate_short_margin(initial_price, quantity)
             amount_changed == btc_amount(quantity, initial_price)
                               - btc_amount(quantity, closing_price)
             margin == IF position = "Long" THEN long_margin ELSE short_margin
             profit == position_payout(position,
                                       long_is_liquidated(initial_price, closing_price, leverage),
                                       long_margin, short_margin, amount_changed)
                       - margin
         IN  IF margin = 0
             THEN Err("Unable to compute percent")
             ELSE Ok([profit |-> profit, percent |-> [num |-> 100 * profit, den |-> margin]])

\* ---------------------------------------------------------------- commands

\* Cfd::is_attested
is_attested(cfd) == cfd.cet # None

\* is_final as it would be if a confirmed commit transaction counted as final.
is_final_or_committed(cfd) ==
    \/ cfd.collaborative_settlement_finality \/ cfd.cet_finality
    \/ cfd.refund_finality \/ cfd.commit_finality

\* Cfd::is_final
is_final(cfd) ==
    cfd.collaborative_settlement_finality \/ cfd.cet_finality \/ cfd.refund_finality

\* can_roll_over as it would be without the check of the lock transaction.
can_roll_over_unlocked(cfd) ==
    ~cfd.commit_finality /\ ~is_final(cfd) /\ ~is_attested(cfd)

\* Cfd::can_roll_over
can_roll_over(cfd) ==
    cfd.lock_finality /\ ~cfd.commit_finality /\ ~is_final(cfd) /\ ~is_attested(cfd)

\* can_settle_collaboratively as it would be without the attestation check.
can_settle_collaboratively_attested(cfd) ==
    cfd.lock_finality /\ ~cfd.commit_finality /\ ~is_final(cfd)

\* Cfd::can_settle_collaboratively
can_settle_collaboratively(cfd) ==
    cfd.lock_finality /\ ~cfd.commit_finality /\ ~is_final(cfd) /\ ~is_attested(cfd)

\* Cfd::event, without the timestamp
event(cfd, evt) == [id |-> cfd.id, event |-> evt]

\* Cfd::refund_timelock_in_blocks: (settlement_interval * 1.5).as_blocks().ceil(),
\* a block every 10 minutes: ceil(minutes * 3 / 20).
refund_timelock_in_blocks(cfd) == (cfd.settlement_interval * 3 + 19) \div 20

\* Cfd::start_contract_setup
start_contract_setup(cfd) ==
    IF cfd.version > 0
    THEN Err("Start contract not allowed in version")
    ELSE LET long == calculate_long_margin(cfd.initial_price, cfd.quantity, cfd.leverage)
             short == calculate_short_margin(cfd.initial_price, cfd.quantity)
         IN  Ok([params |-> [margin |-> IF cfd.position = "Long" THEN long ELSE short,
                             counterparty_margin |->
                                 IF cfd.position = "Long" THEN short ELSE long,
                             price |-> cfd.initial_price,
                             quantity |-> cfd.quantity,
                             leverage |-> cfd.leverage,
                             refund_timelock |-> refund_timelock_in_blocks(cfd),
                             fee_rate |-> 1],
                 identity |-> cfd.counterparty_network_identity])

\* crate::SETTLEMENT_INTERVAL
SETTLEMENT_INTERVAL == hours(24)

\* Cfd::expiry_timestamp: the timestamp of the settlement event of the Dlc.
\* The settlement event of Dlc d is due d days after the start of the clock.
expiry_timestamp(cfd) ==
    IF cfd.dlc = None THEN None
    ELSE Some(hours(24) * settlement_event_id(cfd.dlc[1]))

\* Cfd::is_rollover_possible
is_rollover_possible(cfd, now) ==
    IF is_final(cfd)
    THEN Err("WrongState: final")
    ELSE IF cfd.commit_tx # None
    THEN Err("WrongState: committed")
    ELSE IF expiry_timestamp(cfd) = None
    THEN Err("NoDlc")
    ELSE IF now > expiry_timestamp(cfd)[1]
    THEN Err("AlreadyExpired")
    ELSE IF expiry_timestamp(cfd)[1] - now > SETTLEMENT_INTERVAL - hours(1)
    THEN Err("WasJustRolledOver")
    ELSE Ok("possible")

\* Cfd::start_rollover
start_rollover(cfd) ==
    IF ~can_roll_over(cfd)
    THEN Err("Start rollover only allowed when open")
    ELSE IF cfd.dlc = None
    THEN Err("dlc has to be available for rollover")
    ELSE Ok([params |-> [price |-> cfd.initial_price,
                         quantity |-> cfd.quantity,
                         leverage |-> cfd.leverage,
                         refund_timelock |-> refund_timelock_in_blocks(cfd),
                         fee_rate |-> 1],
             dlc |-> cfd.dlc[1],
             settlement_interval |-> cfd.settlement_interval])

\* The lookup of the current price on the payout curve: the payout found, or
\* none (payout_curve::calculate failed or the price is on no interval).
Payouts == {None, Some([taker |-> 1, maker |-> 1])}

\* Cfd::start_collaborative_settlement_taker
start_collaborative_settlement_taker(cfd, current_price, payout) ==
    IF ~can_settle_collaboratively(cfd)
    THEN Err("Start collaborative settlement only allowed when open")
    ELSE IF payout = None
    THEN Err("find current price on the payout curve")
    ELSE Ok([order_id |-> cfd.id, taker |-> payout[1].taker,
             maker |-> payout[1].maker, price |-> current_price])

\* SettlementProposal: the proposals of a collaborative settlement of a cfd.
SettlementProposals ==
    { [order_id |-> dummy_row.id, taker |-> p[1].taker, maker |-> p[1].maker,
       price |-> 60000] : p \in Payouts \ {None} }

\* Cfd::start_collaborative_settlement_maker: closable tells whether maia
\* builds and finalises the close transaction from the proposal and the two
\* signatures.
start_collaborative_settlement_maker(cfd, proposal, closable) ==
    IF cfd.dlc = None
    THEN Err("dlc has to be available for collab settlemment")
    ELSE IF ~closable
    THEN Err("Unable to collaborative close transaction")
    ELSE Ok([tx |-> spend_tx_of(cfd.dlc[1]), price |-> proposal.price])

\* Cfd::sign_collaborative_close_transaction_taker: the method borrows the
\* aggregate mutably and takes the Dlc out of it before anything else; cfd is
\* the aggregate the call leaves behind.
sign_collaborative_close_transaction_taker(cfd, proposal, closable) ==
    [cfd |-> [cfd EXCEPT !.dlc = None],
     result |-> IF cfd.dlc = None
                THEN Err("Collaborative close without DLC")
                ELSE IF ~closable
                THEN Err("Unable to collaborative close transaction")
                ELSE Ok([tx |-> spend_tx_of(cfd.dlc[1]), proposal |-> proposal])]

\* Completed<P>: the outcome a protocol actor publishes.
Succeeded(payload) == [outcome |-> "Succeeded", payload |-> payload]
Rejected == [outcome |-> "Rejected"]
Failed == [outcome |-> "Failed"]

\* SetupCompleted and RolloverCompleted carry a Dlc.
DlcCompleted == {Succeeded(d) : d \in Dlcs} \cup {Rejected, Failed}
\* CollaborativeSettlementCompleted carries the settlement's spend transaction.
SettlementCompleted == {Succeeded(spend_tx_of(d)) : d \in Dlcs} \cup {Rejected, Failed}
\* Result<Dlc>, the argument of roll_over.
RolloverResults == {Ok(d) : d \in Dlcs} \cup {Err("rollover failed")}

\* setup_contract as it would be without the check of the version.
setup_contract_at_any_version(cfd, completed) ==
    Ok(event(cfd,
        CASE completed.outcome = "Succeeded" ->
                [name |-> "ContractSetupCompleted", dlc |-> completed.payload]
          [] completed.outcome = "Rejected" -> [name |-> "OfferRejected"]
          [] completed.outcome = "Failed" -> [name |-> "ContractSetupFailed"]))

\* Cfd::setup_contract
setup_contract(cfd, completed) ==
    IF cfd.version > 0
    THEN Err("Complete contract setup not allowed because cfd already in version")
    ELSE Ok(event(cfd,
            CASE completed.outcome = "Succeeded" ->
                    [name |-> "ContractSetupCompleted", dlc |-> completed.payload]
              [] completed.outcome = "Rejected" -> [name |-> "OfferRejected"]
              [] completed.outcome = "Failed" -> [name |-> "ContractSetupFailed"]))

\* Cfd::roll_over
roll_over(cfd, rollover_result) ==
    IF ~can_roll_over(cfd)
    THEN Err("Complete rollover only allowed when open")
    ELSE Ok(event(cfd,
            IF rollover_result.ok
            THEN [name |-> "RolloverCompleted", dlc |-> rollover_result.val]
            ELSE [name |-> "RolloverFailed"]))

\* settle_collaboratively as it would be if a rejected or failed settlement
\* recorded no commit transaction of the Dlc.
settle_collaboratively_without_commit(cfd, settlement) ==
    IF ~can_settle_collaboratively(cfd)
    THEN Err("Cannot collaboratively settle anymore")
    ELSE IF settlement.outcome = "Succeeded"
    THEN Ok(event(cfd, [name |-> "CollaborativeSettlementCompleted",
                        spend_tx |-> settlement.payload]))
    ELSE IF cfd.dlc = None
    THEN Err("No dlc after collaborative settlement rejected")
    ELSE Ok(event(cfd, [name |-> "OfferRejected"]))

\* Cfd::settle_collaboratively
settle_collaboratively(cfd, settlement) ==
    IF ~can_settle_collaboratively(cfd)
    THEN Err("Cannot collaboratively settle anymore")
    ELSE IF settlement.outcome = "Succeeded"
    THEN Ok(event(cfd, [name |-> "CollaborativeSettlementCompleted",
                        spend_tx |-> settlement.payload]))
    ELSE IF cfd.dlc = None
    THEN Err("No dlc after collaborative settlement rejected")
    ELSE IF settlement.outcome = "Rejected"
    THEN Ok(event(cfd, [name |-> "CollaborativeSettlementRejected",
                        commit_tx |-> signed_commit_tx(cfd.dlc[1])]))
    ELSE Ok(event(cfd, [name |-> "CollaborativeSettlementFailed",
                        commit_tx |-> signed_commit_tx(cfd.dlc[1])]))

\* oracle::Attestation: the event it attests and whether its price lies in
\* the range of one of the CETs.
Attestations == [id : Dlcs, in_range : BOOLEAN]

\* decrypt_cet as it would be if it did not look at the CET timelock.
decrypt_cet_ignoring_timelock(cfd, attestation) ==
    IF is_final(cfd)
    THEN Err("Condition failed: !self.is_final()")
    ELSE IF cfd.dlc = None
    THEN Ok(None)
    ELSE IF attestation.id # settlement_event_id(cfd.dlc[1])
    THEN Ok(None)
    ELSE IF ~attestation.in_range
    THEN Err("Price out of range of cets")
    ELSE Ok(Some(event(cfd, [name |-> "OracleAttestedPriorCetTimelock",
                             timelocked_cet |-> signed_cet_tx(cfd.dlc[1]),
                             commit_tx |-> signed_commit_tx(cfd.dlc[1])])))

\* Cfd::decrypt_cet; Ok(None) is "no event".
decrypt_cet(cfd, attestation) ==
    IF is_final(cfd)
    THEN Err("Condition failed: !self.is_final()")
    ELSE IF cfd.dlc = None
    THEN Ok(None)
    ELSE IF attestation.id # settlement_event_id(cfd.dlc[1])
    THEN Ok(None)
    ELSE IF ~attestation.in_range
    THEN Err("Price out of range of cets")
    ELSE IF cfd.cet_timelock_expired
    THEN Ok(Some(event(cfd, [name |-> "OracleAttestedPostCetTimelock",
                             cet |-> signed_cet_tx(cfd.dlc[1])])))
    ELSE Ok(Some(event(cfd, [name |-> "OracleAttestedPriorCetTimelock",
                             timelocked_cet |-> signed_cet_tx(cfd.dlc[1]),
                             commit_tx |-> signed_commit_tx(cfd.dlc[1])])))

\* handle_cet_timelock_expired as it would be if it did not look at the CET.
handle_cet_timelock_expired_ignoring_cet(cfd) ==
    IF is_final(cfd)
    THEN Err("Condition failed: !self.is_final()")
    ELSE Ok(event(cfd, [name |-> "CetTimelockConfirmedPriorOracleAttestation"]))

\* Cfd::handle_cet_timelock_expired
handle_cet_timelock_expired(cfd) ==
    IF is_final(cfd)
    THEN Err("Condition failed: !self.is_final()")
    ELSE IF cfd.cet # None
    THEN Ok(event(cfd, [name |-> "CetTimelockConfirmedPostOracleAttestation",
                        cet |-> cfd.cet[1]]))
    ELSE Ok(event(cfd, [name |-> "CetTimelockConfirmedPriorOracleAttestation"]))

\* Cfd::handle_lock_confirmed
handle_lock_confirmed(cfd) == event(cfd, [name |-> "LockConfirmed"])
\* Cfd::handle_commit_confirmed
handle_commit_confirmed(cfd) == event(cfd, [name |-> "CommitConfirmed"])
\* Cfd::handle_collaborative_settlement_confirmed
handle_collaborative_settlement_confirmed(cfd) ==
    event(cfd, [name |-> "CollaborativeSettlementConfirmed"])
\* Cfd::handle_cet_confirmed
handle_cet_confirmed(cfd) == event(cfd, [name |-> "CetConfirmed"])
\* Cfd::handle_refund_confirmed
handle_refund_confirmed(cfd) == event(cfd, [name |-> "RefundConfirmed"])
\* Cfd::handle_revoke_confirmed
handle_revoke_confirmed(cfd) == event(cfd, [name |-> "RevokeConfirmed"])

\* manual_commit_to_blockchain as it would be if it did not ask whether the
\* cfd is final.
manual_commit_to_blockchain_when_final(cfd) ==
    IF cfd.dlc = None
    THEN Err("Cannot commit without a DLC")
    ELSE Ok(event(cfd, [name |-> "ManualCommit", tx |-> signed_commit_tx(cfd.dlc[1])]))

\* Cfd::manual_commit_to_blockchain
manual_commit_to_blockchain(cfd) ==
    IF is_final(cfd)
    THEN Err("Condition failed: !self.is_final()")
    ELSE IF cfd.dlc = None
    THEN Err("Cannot commit without a DLC")
    ELSE Ok(event(cfd, [name |-> "ManualCommit", tx |-> signed_commit_tx(cfd.dlc[1])]))

\* Every event some command of the aggregate returns in state cfd.
CommandEvents(cfd) ==
    { r.val : r \in { x \in
        {setup_contract(cfd, c) : c \in DlcCompleted}
        \cup {roll_over(cfd, r) : r \in RolloverResults}
        \cup {settle_collaboratively(cfd, s) : s \in SettlementCompleted}
        \cup {handle_cet_timelock_expired(cfd), manual_commit_to_blockchain(cfd)} : x.ok } }
    \cup { r.val[1] : r \in { x \in {decrypt_cet(cfd, a) : a \in Attestations} :
                               x.ok /\ x.val # None } }
    \cup { handle_lock_confirmed(cfd), handle_commit_confirmed(cfd),
           handle_collaborative_settlement_confirmed(cfd), handle_cet_confirmed(cfd),
           handle_refund_confirmed(cfd), handle_revoke_confirmed(cfd) }

\* ------------------------------------------------------------------- state

VARIABLES
    es,     \* FoldSpec: the event list folded so far
    cfd,    \* FoldSpec: the aggregate obtained by applying es one by one
    cfds,   \* table cfds: the static rows, in insertion order
    events, \* table events: rows [id, event], in insertion order
    appended_by,    \* for each row of events, the actor that called append_event
    current_order,  \* taker_cfd::Actor.current_order
    setup_actors,   \* taker_cfd::Actor.setup_actors
    collab_settlement_actors,   \* taker_cfd::Actor.collab_settlement_actors
    rollover_actors,    \* auto_rollover::Actor.rollover_actors
    actors,         \* the protocol actors that are live (their addresses connected)
    spawned,        \* number of protocol actors spawned so far
    taker_inbox,    \* Completed messages on their way to the taker CFD actor
    rollover_inbox, \* RolloverCompleted and Stopping messages on their way to the auto-rollover actor
    pm_inbox,       \* the event the taker CFD actor sent to the process manager and awaits
    rollover_pending,   \* the event handle_rollover_completed is about to append
    crashed,        \* the actors whose handler panicked
    last            \* the call handled last and its result: a TakeOffer, ProposeSettlement or CurrentOrder
                    \* (Spec), a command (CommandSpec), a database call (DbSpec), a profit
                    \* calculation (ProfitSpec); NoRequest when the last step was none of these
\* SupervisorSpec and ConnectionSpec keep the actor they run in cfd and its
\* history in es and events, as the sections of the two specifications say.

fold_vars == <<es, cfd>>
db_vars == <<cfds, events, appended_by>>
taker_vars == <<current_order, setup_actors, collab_settlement_actors, taker_inbox, pm_inbox>>
rollover_vars == <<rollover_actors, rollover_inbox, rollover_pending>>
actor_vars == <<actors, spawned, crashed, last>>
vars == <<fold_vars, db_vars, taker_vars, rollover_vars, actor_vars>>

OrderIds == 1..NumOrders

\* No request was handled by the last step.
NoRequest == [msg |-> "none", order_id |-> 0, result |-> Ok("none")]

\* What FoldSpec leaves alone.
SystemInit ==
    /\ cfds = <<>>
    /\ events = <<>>
    /\ appended_by = <<>>
    /\ current_order = None
    /\ setup_actors = [o \in OrderIds |-> None]
    /\ collab_settlement_actors = [o \in OrderIds |-> None]
    /\ rollover_actors = [o \in OrderIds |-> None]
    /\ actors = {}
    /\ spawned = 0
    /\ taker_inbox = {}
    /\ rollover_inbox = {}
    /\ pm_inbox = None
    /\ rollover_pending = None
    /\ crashed = {}
    /\ last = NoRequest

\* ---------------------------------------------------------------- FoldSpec

FoldInit ==
    /\ es = <<>>
    /\ cfd = new(dummy_row)
    /\ SystemInit

\* One step of the fold: the next event of the list is applied to the
\* aggregate in memory. A panicked fold applies nothing further.
ApplyEvent(e) ==
    /\ Len(es) < MaxEvents
    /\ cfd # Panic
    /\ es' = Append(es, e)
    /\ cfd' = apply(cfd, e)
    /\ UNCHANGED <<db_vars, taker_vars, rollover_vars, actor_vars>>

FoldNext == \E e \in CfdEvent : ApplyEvent(e)

FoldSpec == FoldInit /\ [][FoldNext]_vars

\* ------------------------------------------------------------ command spec

\* The names of the events the six *_confirmed commands return.
ConfirmedEventNames ==
    { "LockConfirmed", "CommitConfirmed", "CollaborativeSettlementConfirmed",
      "CetConfirmed", "RefundConfirmed", "RevokeConfirmed" }

\* Cfd::handle_lock_confirmed .. Cfd::handle_revoke_confirmed, by event name.
handle_confirmed(c, name) ==
    CASE name = "LockConfirmed" -> handle_lock_confirmed(c)
      [] name = "CommitConfirmed" -> handle_commit_confirmed(c)
      [] name = "CollaborativeSettlementConfirmed" ->
            handle_collaborative_settlement_confirmed(c)
      [] name = "CetConfirmed" -> handle_cet_confirmed(c)
      [] name = "RefundConfirmed" -> handle_refund_confirmed(c)
      [] name = "RevokeConfirmed" -> handle_revoke_confirmed(c)

\* The event of a Result<Event>, if any.
emitted_by(r) == IF r.ok THEN Some(r.val) ELSE None

\* A command ran on the aggregate with result r; the event it emitted, if
\* any, was appended to the log and applied.
Commanded(msg, arg, r, emitted) ==
    /\ emitted # None => Len(es) < MaxEvents
    /\ es' = IF emitted = None THEN es ELSE Append(es, emitted[1].event)
    /\ cfd' = IF emitted = None THEN cfd ELSE apply(cfd, emitted[1].event)
    /\ last' = [msg |-> msg, order_id |-> cfd.id, arg |-> arg, result |-> r, before |-> cfd]
    /\ UNCHANGED <<db_vars, taker_vars, rollover_vars, actors, spawned, crashed>>

StartContractSetup ==
    /\ cfd # Panic
    /\ Commanded("start_contract_setup", None, start_contract_setup(cfd), None)

SetupContract(completed) ==
    /\ cfd # Panic
    /\ LET r == setup_contract(cfd, completed)
       IN  Commanded("setup_contract", completed, r, emitted_by(r))

StartRollover ==
    /\ cfd # Panic
    /\ Commanded("start_rollover", None, start_rollover(cfd), None)

RollOver(rollover_result) ==
    /\ cfd # Panic
    /\ LET r == roll_over(cfd, rollover_result)
       IN  Commanded("roll_over", rollover_result, r, emitted_by(r))

StartCollaborativeSettlementTaker(current_price, found) ==
    /\ cfd # Panic
    /\ Commanded("start_collaborative_settlement_taker", found,
                 start_collaborative_settlement_taker(cfd, current_price, found), None)

SettleCollaboratively(settlement) ==
    /\ cfd # Panic
    /\ LET r == settle_collaboratively(cfd, settlement)
       IN  Commanded("settle_collaboratively", settlement, r, emitted_by(r))

DecryptCet(attestation) ==
    /\ cfd # Panic
    /\ LET r == decrypt_cet(cfd, attestation)
       IN  Commanded("decrypt_cet", attestation, r, IF r.ok THEN r.val ELSE None)

HandleCetTimelockExpired ==
    /\ cfd # Panic
    /\ LET r == handle_cet_timelock_expired(cfd)
       IN  Commanded("handle_cet_timelock_expired", None, r, emitted_by(r))

\* Cfd::handle_refund_timelock_expired is todo!(): the call panics and no
\* event is emitted.
HandleRefundTimelockExpired ==
    /\ cfd # Panic
    /\ Commanded("handle_refund_timelock_expired", None, Panic, None)

HandleConfirmed(name) ==
    /\ cfd # Panic
    /\ LET r == Ok(handle_confirmed(cfd, name))
       IN  Commanded("handle_confirmed", name, r, emitted_by(r))

ManualCommitToBlockchain ==
    /\ cfd # Panic
    /\ LET r == manual_commit_to_blockchain(cfd)
       IN  Commanded("manual_commit_to_blockchain", None, r, emitted_by(r))

CommandNext ==
    \/ StartContractSetup
    \/ \E completed \in DlcCompleted : SetupContract(completed)
    \/ StartRollover
    \/ \E rollover_result \in RolloverResults : RollOver(rollover_result)
    \/ \E found \in Payouts : StartCollaborativeSettlementTaker(60000, found)
    \/ \E settlement \in SettlementCompleted : SettleCollaboratively(settlement)
    \/ \E attestation \in Attestations : DecryptCet(attestation)
    \/ HandleCetTimelockExpired
    \/ HandleRefundTimelockExpired
    \/ \E name \in ConfirmedEventNames : HandleConfirmed(name)
    \/ ManualCommitToBlockchain

\* The aggregate driven by its commands: every event of the log was returned
\* by a command run on the aggregate rehydrated from the log so far.
CommandSpec == FoldInit /\ [][CommandNext]_vars

\* ------------------------------------------------------------ AggregateSpec

StartCollaborativeSettlementMaker(proposal, closable) ==
    /\ cfd # Panic
    /\ Commanded("start_collaborative_settlement_maker", proposal,
                 start_collaborative_settlement_maker(cfd, proposal, closable), None)

SignCollaborativeCloseTransactionTaker(proposal, closable) ==
    /\ cfd # Panic
    /\ LET out == sign_collaborative_close_transaction_taker(cfd, proposal, closable)
       IN  /\ cfd' = out.cfd
           /\ last' = [msg |-> "sign_collaborative_close_transaction_taker",
                       order_id |-> cfd.id, arg |-> proposal,
                       result |-> out.result, before |-> cfd]
    /\ UNCHANGED <<es, db_vars, taker_vars, rollover_vars, actors, spawned, crashed>>

AggregateNext ==
    \/ CommandNext
    \/ \E proposal \in SettlementProposals, closable \in BOOLEAN :
          StartCollaborativeSettlementMaker(proposal, closable)
    \/ \E proposal \in SettlementProposals, closable \in BOOLEAN :
          SignCollaborativeCloseTransactionTaker(proposal, closable)

\* The aggregate driven by every method of its command surface, those of the
\* maker's settlement and of the taker's signing included.
AggregateSpec == FoldInit /\ [][AggregateNext]_vars

\* -------------------------------------------------------------- ProfitSpec

Positions == { "Long", "Short" }

\* A call of calculate_profit for a position of a contract; ProfitSpec
\* calculates one profit in a behaviour.
CalculateProfit(initial_price, closing_price, quantity, leverage, position) ==
    /\ last = NoRequest
    /\ last' = [msg |-> "calculate_profit", order_id |-> 0,
                arg |-> [initial_price |-> initial_price, closing_price |-> closing_price,
                         quantity |-> quantity, leverage |-> leverage,
                         position |-> position],
                result |-> calculate_profit(initial_price, closing_price, quantity,
                                            leverage, position)]
    /\ UNCHANGED <<fold_vars, db_vars, taker_vars, rollover_vars, actors, spawned, crashed>>

ProfitNext ==
    \E initial_price \in 0..MaxPrice, closing_price \in 0..MaxPrice,
       quantity \in 1..MaxQuantity, leverage \in 1..MaxLeverage, position \in Positions :
        CalculateProfit(initial_price, closing_price, quantity, leverage, position)

ProfitSpec == FoldInit /\ [][ProfitNext]_vars

\* ------------------------------------------------------------- event store

\* Whether table cfds holds a row for an id.
has_row(table, id) == \E i \in 1..Len(table) : table[i].id = id

\* The row of table cfds db::insert_cfd binds for a cfd: the settlement
\* interval is stored as its number of whole hours.
cfd_row(c) ==
    [id |-> c.id, position |-> c.position, initial_price |-> c.initial_price,
     leverage |-> c.leverage,
     settlement_time_interval_hours |-> whole_hours(c.settlement_interval),
     quantity_usd |-> c.quantity,
     counterparty_network_identity |-> c.counterparty_network_identity,
     role |-> c.role]

\* The db::Cfd that db::load_cfd builds from a row of table cfds.
db_cfd(r) ==
    [id |-> r.id, position |-> r.position, initial_price |-> r.initial_price,
     leverage |-> r.leverage,
     settlement_interval |-> hours(r.settlement_time_interval_hours),
     quantity |-> r.quantity_usd,
     counterparty_network_identity |-> r.counterparty_network_identity,
     role |-> r.role]

\* insert_cfd as it would be if the uuid column of cfds were not unique.
insert_cfd_duplicating(table, c) == Ok(Append(table, cfd_row(c)))

\* db::insert_cfd: the uuid column of cfds is unique.
insert_cfd(table, c) ==
    IF has_row(table, c.id)
    THEN Err("UNIQUE constraint failed: cfds.uuid")
    ELSE Ok(Append(table, cfd_row(c)))

\* append_event as it would be if table events took a row without a cfd.
append_event_unchecked(ev) == Ok(Append(events, ev))

\* db::append_event of Some(event): the new contents of table events, or an
\* error when the event's cfd has no row.
append_event(ev) ==
    IF ~has_row(cfds, ev.id)
    THEN Err("failed to insert event")
    ELSE Ok(Append(events, ev))

\* events_of as it would be if the rows came back newest first.
RECURSIVE events_of_newest_first(_, _)
events_of_newest_first(table, id) ==
    IF table = <<>> THEN <<>>
    ELSE IF Head(table).id = id
    THEN events_of_newest_first(Tail(table), id) \o <<Head(table).event>>
    ELSE events_of_newest_first(Tail(table), id)

\* The events of one cfd among the rows of table events, in table order.
RECURSIVE events_of(_, _)
events_of(table, id) ==
    IF table = <<>> THEN <<>>
    ELSE IF Head(table).id = id
    THEN <<Head(table).event>> \o events_of(Tail(table), id)
    ELSE events_of(Tail(table), id)

\* db::load_cfd: the static row and the events of a cfd.
db_load_cfd(id) ==
    IF ~has_row(cfds, id)
    THEN Err("no rows returned by a query that expected to return at least one row")
    ELSE Ok([row |-> db_cfd(cfds[CHOOSE i \in 1..Len(cfds) : cfds[i].id = id]),
             events |-> events_of(events, id)])

\* db::load_all_cfd_ids
load_all_cfd_ids == [i \in 1..Len(cfds) |-> cfds[i].id]

\* cfd_actors::load_cfd: db::load_cfd, then Cfd::rehydrate. Ok(Panic) is a
\* load whose fold panicked.
load_cfd(id) ==
    LET r == db_load_cfd(id)
    IN  IF r.ok THEN Ok(rehydrate(r.val.row, r.val.events)) ELSE r

\* ------------------------------------------------------------------ DbSpec

\* The cfds DbSpec inserts: the cfd of db::tests::Cfd::dummy under every order
\* id, and one whose settlement interval is one and a half hours.
DbCfds ==
    { [dummy_row EXCEPT !.id = id] : id \in OrderIds }
        \cup { [dummy_row EXCEPT !.settlement_interval = hours(1) + 30] }

\* The events DbSpec appends (those of db::tests::test_append_events), and
\* the None that append_event accepts.
DbEvents ==
    { Some([id |-> id, event |-> [name |-> n]]) :
        id \in OrderIds, n \in {"OfferRejected", "RevokeConfirmed"} } \cup { None }

\* A call of db::insert_cfd.
DbInsertCfd(c) ==
    LET r == insert_cfd(cfds, c)
    IN  /\ r.ok => Len(cfds) < MaxCfds
        /\ cfds' = IF r.ok THEN r.val ELSE cfds
        /\ last' = [msg |-> "insert_cfd", order_id |-> c.id, arg |-> c,
                    result |-> IF r.ok THEN Ok("inserted") ELSE r]
        /\ UNCHANGED <<fold_vars, events, appended_by, taker_vars, rollover_vars,
                       actors, spawned, crashed>>

\* A call of db::append_event; None is accepted and appends nothing.
DbAppendEvent(ev) ==
    LET r == IF ev = None THEN Ok(events) ELSE append_event(ev[1])
        appended == r.ok /\ ev # None
    IN  /\ appended => Len(events) < MaxLog
        /\ events' = IF r.ok THEN r.val ELSE events
        /\ appended_by' = IF appended THEN Append(appended_by, "caller") ELSE appended_by
        /\ last' = [msg |-> "append_event", order_id |-> IF ev = None THEN 0 ELSE ev[1].id,
                    arg |-> ev, result |-> IF r.ok THEN Ok("appended") ELSE r]
        /\ UNCHANGED <<fold_vars, cfds, taker_vars, rollover_vars, actors, spawned, crashed>>

\* A call of db::load_cfd.
DbLoadCfd(id) ==
    /\ last' = [msg |-> "load_cfd", order_id |-> id, arg |-> None,
                result |-> db_load_cfd(id)]
    /\ UNCHANGED <<fold_vars, db_vars, taker_vars, rollover_vars, actors, spawned, crashed>>

DbNext ==
    \/ \E c \in DbCfds : DbInsertCfd(c)
    \/ \E ev \in DbEvents : DbAppendEvent(ev)
    \/ \E id \in OrderIds : DbLoadCfd(id)

DbSpec == FoldInit /\ [][DbNext]_vars

\* ------------------------------------------------------------- address map

\* AddressMap::get_disconnected: the slot of a key, unless an actor is
\* registered under the key and still connected.
get_disconnected(map, live, key) ==
    IF map[key] # None /\ map[key][1] \in live
    THEN Err("StillConnected")
    ELSE Ok(key)

\* Disconnected::insert: registers an address in the slot.
insert(map, key, addr) == [map EXCEPT ![key] = Some(addr)]

\* gc as it would be if it left the map as it is.
gc_keeping(map, me) == map

\* AddressMap::gc: removes the entries of the actor that is stopping.
gc(map, me) == [k \in DOMAIN map |-> IF map[k] = Some(me) THEN None ELSE map[k]]

\* The address of a protocol actor: its kind, the key it is registered under,
\* the cfd it runs the protocol for, the Dlc of that cfd when it was spawned,
\* whether the protocol can start for that cfd, and the spawn number.
Address(kind, key, c, n) ==
    [kind |-> kind, key |-> key, order_id |-> c.id, dlc |-> c.dlc,
     can_start |-> CASE kind = "rollover" -> start_rollover(c).ok
                     [] OTHER -> TRUE,
     n |-> n]

\* ---------------------------------------------------------- taker CFD actor

\* The quantity of a TakeOffer and the price of a ProposeSettlement.
Quantities == {1000}
Prices == {60000}

\* Orders the maker announces, one per order id.
Orders == [id : OrderIds]

\* Cfd::from_order
from_order(order, position, quantity, counterparty_network_identity, role) ==
    [id |-> order.id, position |-> position, initial_price |-> 60000, leverage |-> 2,
     settlement_interval |-> hours(24), quantity |-> quantity,
     counterparty_network_identity |-> counterparty_network_identity, role |-> role]

\* What a handler of the taker CFD actor leaves behind when it returns early.
taker_unchanged ==
    [cfds |-> cfds, setup_actors |-> setup_actors,
     collab_settlement_actors |-> collab_settlement_actors,
     actors |-> actors, spawned |-> spawned, pm_inbox |-> pm_inbox, panicked |-> FALSE]

\* handle_take_offer as it would be without the check of the setup slot.
take_offer_unchecked(order_id, quantity, announcement) ==
    IF current_order = None
    THEN [result |-> Err("No current order from maker")] @@ taker_unchanged
    ELSE LET c == from_order(current_order[1], "Long", quantity, "maker", "Taker")
             inserted == insert_cfd(cfds, c)
             addr == Address("setup", order_id, new(c), spawned + 1)
         IN  IF ~inserted.ok
             THEN [result |-> inserted] @@ taker_unchanged
             ELSE IF announcement = None
             THEN [result |-> Err("Announcement not found"), cfds |-> inserted.val]
                  @@ taker_unchanged
             ELSE [result |-> Ok("spawned"), cfds |-> inserted.val,
                   setup_actors |-> insert(setup_actors, order_id, addr),
                   actors |-> actors \cup {addr}, spawned |-> spawned + 1]
                  @@ taker_unchanged

\* Actor::handle_take_offer: the result and what the handler leaves behind.
take_offer(order_id, quantity, announcement) ==
    IF ~get_disconnected(setup_actors, actors, order_id).ok
    THEN [result |-> Err("Contract setup for order is already in progress")]
         @@ taker_unchanged
    ELSE take_offer_unchecked(order_id, quantity, announcement)

\* collab_settlement_taker::Actor::new: fails when the cfd cannot start a
\* collaborative settlement at the current price.
collab_settlement_taker_new(c, current_price, payout) ==
    start_collaborative_settlement_taker(c, current_price, payout)

\* handle_propose_settlement as it would be without the check of the slot.
propose_settlement_unchecked(order_id, current_price, payout) ==
    LET loaded == load_cfd(order_id)
    IN  IF ~loaded.ok
        THEN [result |-> loaded] @@ taker_unchanged
        ELSE IF loaded.val = Panic
        THEN [result |-> Err("panicked"), panicked |-> TRUE] @@ taker_unchanged
        ELSE LET created == collab_settlement_taker_new(loaded.val, current_price, payout)
                 addr == Address("collab_settlement", order_id, loaded.val, spawned + 1)
             IN  IF ~created.ok
                 THEN [result |-> created] @@ taker_unchanged
                 ELSE [result |-> Ok("spawned"),
                       collab_settlement_actors |->
                           insert(collab_settlement_actors, order_id, addr),
                       actors |-> actors \cup {addr}, spawned |-> spawned + 1]
                      @@ taker_unchanged

\* Actor::handle_propose_settlement
propose_settlement(order_id, current_price, payout) ==
    IF ~get_disconnected(collab_settlement_actors, actors, order_id).ok
    THEN [result |-> Err("Settlement for order is already in progress")]
         @@ taker_unchanged
    ELSE propose_settlement_unchecked(order_id, current_price, payout)

\* A handler that loads the cfd, runs a command on it and sends the event the
\* command returns to the process manager (handle_setup_completed,
\* handle_settlement_completed, cfd_actors::handle_monitoring_event).
\* commanded is the command's Result<Event> on the loaded cfd, or Panic for a
\* todo!().
send_to_process_manager(loaded, commanded) ==
    IF ~loaded.ok
    THEN [result |-> loaded] @@ taker_unchanged
    ELSE IF loaded.val = Panic
    THEN [result |-> Err("panicked"), panicked |-> TRUE] @@ taker_unchanged
    ELSE IF commanded = Panic
    THEN [result |-> Err("panicked"), panicked |-> TRUE] @@ taker_unchanged
    ELSE IF ~commanded.ok
    THEN [result |-> commanded] @@ taker_unchanged
    ELSE [result |-> Ok("sent"), pm_inbox |-> Some(commanded.val)] @@ taker_unchanged

\* The cfd a handler loaded, when the load returned one.
loaded_cfd(loaded) == loaded.ok /\ loaded.val # Panic

\* The taker CFD actor takes the next message off its mailbox: it is not
\* inside a handler (awaiting the process manager) and has not panicked.
TakerReady == "taker_cfd" \notin crashed /\ pm_inbox = None

\* The protocol actors the taker CFD actor spawned.
TakerChildren == { a \in actors : a.kind \in {"setup", "collab_settlement"} }

\* A handler of the taker CFD actor ran and left `out` behind.
TakerHandled(msg, order_id, out) ==
    /\ out.spawned <= MaxActors
    /\ Len(events) + Len(out.pm_inbox) + Len(rollover_pending) <= MaxLog
    /\ cfds' = out.cfds
    /\ setup_actors' = out.setup_actors
    /\ collab_settlement_actors' = out.collab_settlement_actors
    /\ actors' = IF out.panicked THEN out.actors \ TakerChildren ELSE out.actors
    /\ spawned' = out.spawned
    /\ pm_inbox' = out.pm_inbox
    /\ crashed' = IF out.panicked THEN crashed \cup {"taker_cfd"} ELSE crashed
    /\ last' = IF msg \in {"TakeOffer", "ProposeSettlement", "CurrentOrder"}
                THEN [msg |-> msg, order_id |-> order_id, result |-> out.result]
                ELSE NoRequest

\* Actor::handle_current_order
HandleCurrentOrder(order) ==
    /\ TakerReady
    /\ current_order' = IF order # None THEN order ELSE current_order
    /\ TakerHandled("CurrentOrder", IF order = None THEN 0 ELSE order[1].id,
                    [result |-> Ok("updated")] @@ taker_unchanged)
    /\ UNCHANGED <<fold_vars, events, appended_by, taker_inbox, rollover_vars>>

\* Actor::handle_take_offer
HandleTakeOffer(order_id, quantity, announcement) ==
    /\ TakerReady
    /\ TakerHandled("TakeOffer", order_id, take_offer(order_id, quantity, announcement))
    /\ UNCHANGED <<fold_vars, events, appended_by, current_order, taker_inbox, rollover_vars>>

\* Actor::handle_propose_settlement
HandleProposeSettlement(order_id, current_price, payout) ==
    /\ TakerReady
    /\ TakerHandled("ProposeSettlement", order_id,
                    propose_settlement(order_id, current_price, payout))
    /\ UNCHANGED <<fold_vars, events, appended_by, current_order, taker_inbox, rollover_vars>>

\* Actor::handle_setup_completed
HandleSetupCompleted(m) ==
    /\ TakerReady
    /\ m \in taker_inbox /\ m.kind = "SetupCompleted"
    /\ taker_inbox' = taker_inbox \ {m}
    /\ TakerHandled("SetupCompleted", m.order_id,
            LET loaded == load_cfd(m.order_id)
            IN  send_to_process_manager(loaded,
                    IF loaded_cfd(loaded) THEN setup_contract(loaded.val, m.completed) ELSE Panic))
    /\ UNCHANGED <<fold_vars, events, appended_by, current_order, rollover_vars>>

\* Actor::handle_settlement_completed
HandleSettlementCompleted(m) ==
    /\ TakerReady
    /\ m \in taker_inbox /\ m.kind = "SettlementCompleted"
    /\ taker_inbox' = taker_inbox \ {m}
    /\ TakerHandled("SettlementCompleted", m.order_id,
            LET loaded == load_cfd(m.order_id)
            IN  send_to_process_manager(loaded,
                    IF loaded_cfd(loaded) THEN settle_collaboratively(loaded.val, m.completed) ELSE Panic))
    /\ UNCHANGED <<fold_vars, events, appended_by, current_order, rollover_vars>>

\* monitor::Event: what the chain monitor reports about a cfd.
MonitorEvents ==
    { "LockFinality", "CommitFinality", "CloseFinality", "CetTimelockExpired",
      "CetFinality", "RefundTimelockExpired", "RefundFinality", "RevokedTransactionFound" }

\* cfd_actors::handle_monitoring_event: the command of a monitor event.
\* Cfd::handle_refund_timelock_expired is todo!().
monitoring_command(c, mev) ==
    CASE mev = "LockFinality" -> Ok(handle_lock_confirmed(c))
      [] mev = "CommitFinality" -> Ok(handle_commit_confirmed(c))
      [] mev = "CloseFinality" -> Ok(handle_collaborative_settlement_confirmed(c))
      [] mev = "CetTimelockExpired" -> handle_cet_timelock_expired(c)
      [] mev = "CetFinality" -> Ok(handle_cet_confirmed(c))
      [] mev = "RefundTimelockExpired" -> Panic
      [] mev = "RefundFinality" -> Ok(handle_refund_confirmed(c))
      [] mev = "RevokedTransactionFound" -> Ok(handle_revoke_confirmed(c))

\* The cfds the monitor watches: StartMonitoring was sent for them after
\* their contract setup completed.
Monitored == { events[i].id : i \in { j \in 1..Len(events) :
                                        events[j].event.name = "ContractSetupCompleted" } }

\* Actor::handle_monitor
HandleMonitor(order_id, mev) ==
    /\ TakerReady
    /\ order_id \in Monitored
    /\ TakerHandled("Monitor", order_id,
            LET loaded == load_cfd(order_id)
            IN  send_to_process_manager(loaded,
                    IF loaded_cfd(loaded) THEN monitoring_command(loaded.val, mev)
                    ELSE Panic))
    /\ UNCHANGED <<fold_vars, events, appended_by, current_order, taker_inbox, rollover_vars>>

\* ----------------------------------------------------------- process manager

\* process_manager::Actor handling an Event: the event is appended to the log.
ProcessManagerHandle ==
    /\ pm_inbox # None
    /\ LET appended == append_event(pm_inbox[1])
       IN  /\ events' = IF appended.ok THEN appended.val ELSE events
           /\ appended_by' = IF appended.ok
                             THEN Append(appended_by, "process_manager")
                             ELSE appended_by
           /\ last' = NoRequest
    /\ pm_inbox' = None
    /\ UNCHANGED <<fold_vars, cfds, current_order, setup_actors, collab_settlement_actors,
                   taker_inbox, rollover_vars, actors, spawned, crashed>>

\* -------------------------------------------------------- auto-rollover actor

\* The loop of Actor::handle(AutoRollover) over the cfd ids: st holds the
\* address map, the live actors and the spawn count the loop has reached. An
\* id whose slot is taken is skipped; a load that fails ends the handler; every
\* other id gets a rollover actor.
RECURSIVE auto_rollover(_, _)
auto_rollover(ids, st) ==
    IF ids = <<>> THEN st
    ELSE LET id == Head(ids)
         IN  IF ~get_disconnected(st.rollover_actors, st.actors, id).ok
             THEN auto_rollover(Tail(ids), st)
             ELSE LET loaded == load_cfd(id)
                      addr == Address("rollover", id, loaded.val, st.spawned + 1)
                  IN  IF ~loaded.ok
                      THEN [st EXCEPT !.result = loaded]
                      ELSE IF loaded.val = Panic
                      THEN [st EXCEPT !.result = Err("panicked"), !.panicked = TRUE]
                      ELSE auto_rollover(Tail(ids),
                              [st EXCEPT !.rollover_actors = insert(@, id, addr),
                                         !.actors = @ \cup {addr},
                                         !.spawned = @ + 1])

\* The auto-rollover actor takes the next message off its mailbox.
RolloverReady == "auto_rollover" \notin crashed /\ rollover_pending = None

\* The protocol actors the auto-rollover actor spawned.
RolloverChildren == { a \in actors : a.kind = "rollover" }

\* Actor::handle(AutoRollover)
HandleAutoRollover ==
    /\ RolloverReady
    /\ LET out == auto_rollover(load_all_cfd_ids,
                    [rollover_actors |-> rollover_actors, actors |-> actors,
                     spawned |-> spawned, result |-> Ok("checked"), panicked |-> FALSE])
       IN  /\ out.spawned <= MaxActors
           /\ rollover_actors' = out.rollover_actors
           /\ actors' = IF out.panicked THEN out.actors \ RolloverChildren ELSE out.actors
           /\ spawned' = out.spawned
           /\ crashed' = IF out.panicked THEN crashed \cup {"auto_rollover"} ELSE crashed
           /\ last' = NoRequest
    /\ UNCHANGED <<fold_vars, db_vars, taker_vars, rollover_inbox, rollover_pending>>

\* Result<Dlc> of a RolloverCompleted message.
rollover_result(completed) ==
    IF completed.outcome = "Succeeded" THEN Ok(completed.payload) ELSE Err("rollover failed")

\* Actor::handle_rollover_completed up to the event: the cfd is loaded and
\* rolled over.
HandleRolloverCompleted(m) ==
    /\ RolloverReady
    /\ m \in rollover_inbox /\ m.kind = "RolloverCompleted"
    /\ Len(events) + Len(pm_inbox) < MaxLog
    /\ rollover_inbox' = rollover_inbox \ {m}
    /\ LET loaded == load_cfd(m.order_id)
           rolled == roll_over(loaded.val, rollover_result(m.completed))
           panicked == loaded.ok /\ loaded.val = Panic
       IN  /\ rollover_pending' =
                 IF loaded.ok /\ ~panicked /\ rolled.ok THEN Some(rolled.val) ELSE None
           /\ crashed' = IF panicked THEN crashed \cup {"auto_rollover"} ELSE crashed
           /\ actors' = IF panicked THEN actors \ RolloverChildren ELSE actors
           /\ last' = NoRequest
    /\ UNCHANGED <<fold_vars, db_vars, taker_vars, rollover_actors, spawned>>

\* Actor::handle_rollover_completed from the event on: the actor appends the
\* event to the log itself.
AppendRolloverEvent ==
    /\ rollover_pending # None
    /\ LET appended == append_event(rollover_pending[1])
       IN  /\ events' = IF appended.ok THEN appended.val ELSE events
           /\ appended_by' = IF appended.ok
                             THEN Append(appended_by, "auto_rollover")
                             ELSE appended_by
           /\ last' = NoRequest
    /\ rollover_pending' = None
    /\ UNCHANGED <<fold_vars, cfds, taker_vars, rollover_actors, rollover_inbox,
                   actors, spawned, crashed>>

\* Actor::handle_rollover_actor_stopping
HandleRolloverActorStopping(m) ==
    /\ RolloverReady
    /\ m \in rollover_inbox /\ m.kind = "Stopping"
    /\ rollover_inbox' = rollover_inbox \ {m}
    /\ rollover_actors' = gc(rollover_actors, m.me)
    /\ last' = NoRequest
    /\ UNCHANGED <<fold_vars, db_vars, taker_vars, rollover_pending, actors, spawned, crashed>>

\* ------------------------------------------------------------ protocol actors

\* The Dlc a rollover of a Dlc produces.
rolled_over(dlc) == IF dlc < NumDlcs THEN dlc + 1 ELSE dlc

\* The outcomes a protocol actor can publish: a setup produces the first
\* Dlc, a rollover the next one, a collaborative settlement the spend
\* transaction of the Dlc; Succeeded needs a protocol that could start.
Outcomes(a) ==
    {Rejected, Failed} \cup
    CASE a.kind = "setup" -> {Succeeded(1)}
      [] a.kind = "rollover" ->
            IF a.can_start THEN {Succeeded(rolled_over(a.dlc[1]))} ELSE {}
      [] a.kind = "collab_settlement" ->
            IF a.dlc # None THEN {Succeeded(spend_tx_of(a.dlc[1]))} ELSE {}

\* A protocol actor publishes its outcome to its parent and stops; a rollover
\* actor announces that it is stopping.
ActorCompletes(a, completed) ==
    /\ a \in actors
    /\ completed \in Outcomes(a)
    /\ actors' = actors \ {a}
    /\ taker_inbox' =
          CASE a.kind = "setup" ->
                  taker_inbox \cup {[kind |-> "SetupCompleted", order_id |-> a.order_id,
                                     completed |-> completed, from |-> a.n]}
            [] a.kind = "collab_settlement" ->
                  taker_inbox \cup {[kind |-> "SettlementCompleted", order_id |-> a.order_id,
                                     completed |-> completed, from |-> a.n]}
            [] OTHER -> taker_inbox
    /\ rollover_inbox' =
          IF a.kind = "rollover"
          THEN rollover_inbox \cup {[kind |-> "RolloverCompleted", order_id |-> a.order_id,
                                     completed |-> completed, from |-> a.n],
                                    [kind |-> "Stopping", me |-> a]}
          ELSE rollover_inbox
    /\ UNCHANGED <<fold_vars, db_vars, current_order, setup_actors, collab_settlement_actors,
                   pm_inbox, rollover_actors, rollover_pending, spawned, crashed>>
    /\ last' = NoRequest

\* -------------------------------------------------------------------- Spec

Init == FoldInit

Next ==
    \/ \E order \in {None} \cup {Some(o) : o \in Orders} : HandleCurrentOrder(order)
    \/ \E o \in OrderIds, q \in Quantities, ann \in {None, Some("announcement")} :
          HandleTakeOffer(o, q, ann)
    \/ \E o \in OrderIds, price \in Prices, payout \in Payouts :
          HandleProposeSettlement(o, price, payout)
    \/ \E m \in taker_inbox : HandleSetupCompleted(m)
    \/ \E m \in taker_inbox : HandleSettlementCompleted(m)
    \/ \E o \in OrderIds, mev \in MonitorEvents : HandleMonitor(o, mev)
    \/ ProcessManagerHandle
    \/ HandleAutoRollover
    \/ \E m \in rollover_inbox : HandleRolloverCompleted(m)
    \/ AppendRolloverEvent
    \/ \E m \in rollover_inbox : HandleRolloverActorStopping(m)
    \/ \E a \in actors : \E completed \in Outcomes(a) : ActorCompletes(a, completed)

Spec == Init /\ [][Next]_vars

\* The scheduling of the taker: a protocol actor ends with a Completed message,
\* the taker CFD actor handles the SetupCompleted messages of its mailbox and
\* the process manager handles the event it was sent. TakeOffer and the
\* maker's orders are requests from outside and need not come.
LiveSpec ==
    /\ Spec
    /\ WF_vars(\E a \in actors : \E completed \in Outcomes(a) : ActorCompletes(a, completed))
    /\ SF_vars(\E m \in taker_inbox : HandleSetupCompleted(m))
    /\ WF_vars(ProcessManagerHandle)

\* ------------------------------------------------------------ RolloverSpec

\* RolloverSpec runs handle_rollover_completed of the auto-rollover actor for
\* the cfd of one order, next to the taker CFD actor and the process manager
\* that persist the other events of that cfd.

\* The state after TakeOffer inserted the cfd of order 1.
RolloverInit ==
    /\ es = <<>>
    /\ cfd = new(dummy_row)
    /\ cfds = <<cfd_row(dummy_row)>>
    /\ events = <<>>
    /\ appended_by = <<>>
    /\ current_order = None
    /\ setup_actors = [o \in OrderIds |-> None]
    /\ collab_settlement_actors = [o \in OrderIds |-> None]
    /\ rollover_actors = [o \in OrderIds |-> None]
    /\ actors = {}
    /\ spawned = 0
    /\ taker_inbox = {}
    /\ rollover_inbox = {}
    /\ pm_inbox = None
    /\ rollover_pending = None
    /\ crashed = {}
    /\ last = NoRequest

\* The events the handlers of the taker CFD actor hand to the process
\* manager for a cfd: those of every command but roll_over.
TakerEvents(c) ==
    { e \in CommandEvents(c) : e.event.name \notin {"RolloverCompleted", "RolloverFailed"} }

\* A handler of the taker CFD actor loads the cfd and runs a command, and the
\* process manager appends the event.
PersistTakerEvent(e) ==
    /\ Len(events) + Len(rollover_pending) < MaxRolloverLog
    /\ loaded_cfd(load_cfd(dummy_row.id))
    /\ e \in TakerEvents(load_cfd(dummy_row.id).val)
    /\ events' = Append(events, e)
    /\ appended_by' = Append(appended_by, "process_manager")
    /\ last' = NoRequest
    /\ UNCHANGED <<fold_vars, cfds, taker_vars, rollover_vars, actors, spawned, crashed>>

\* A rollover actor that started from the cfd as it is now publishes the
\* outcome of the protocol.
RolloverProtocolCompletes(completed) ==
    /\ rollover_inbox = {} /\ rollover_pending = None
    /\ "auto_rollover" \notin crashed
    /\ loaded_cfd(load_cfd(dummy_row.id))
    /\ completed \in Outcomes(Address("rollover", dummy_row.id, load_cfd(dummy_row.id).val, 0))
    /\ rollover_inbox' = {[kind |-> "RolloverCompleted", order_id |-> dummy_row.id,
                           completed |-> completed, from |-> 0]}
    /\ last' = NoRequest
    /\ UNCHANGED <<fold_vars, db_vars, taker_vars, rollover_actors, rollover_pending,
                   actors, spawned, crashed>>

\* Messages of handle_rollover_completed to the projection, the monitor and
\* the oracle.
CfdsChanged == [to |-> "projection", msg |-> "CfdsChanged"]
StartMonitoring(id, dlc) ==
    [to |-> "monitor", msg |-> "StartMonitoring", id |-> id, params |-> dlc]
MonitorAttestation(dlc) ==
    [to |-> "oracle", msg |-> "MonitorAttestation", event_id |-> settlement_event_id(dlc)]

\* The availability of the actors handle_rollover_completed sends to.
Availability == [projection : BOOLEAN, monitor : BOOLEAN, oracle : BOOLEAN]

\* handle_rollover_completed after append_event: the messages it sends one
\* after the other and its result; a send to an actor that is gone fails and
\* ends the handler.
rollover_notifications(ev, up) ==
    IF ~up.projection
    THEN [sent |-> <<>>, result |-> Err("projection actor disconnected")]
    ELSE IF ev.event.name # "RolloverCompleted"
    THEN [sent |-> <<CfdsChanged>>, result |-> Ok("done")]
    ELSE IF ~up.monitor
    THEN [sent |-> <<CfdsChanged>>, result |-> Err("monitor actor disconnected")]
    ELSE IF ~up.oracle
    THEN [sent |-> <<CfdsChanged, StartMonitoring(ev.id, ev.event.dlc)>>,
          result |-> Err("oracle actor disconnected")]
    ELSE [sent |-> <<CfdsChanged, StartMonitoring(ev.id, ev.event.dlc),
                     MonitorAttestation(ev.event.dlc)>>,
          result |-> Ok("done")]

\* handle_rollover_completed from append_event on, as it would be if it
\* notified before it looked at the result of append_event.
rollover_persisted_notifying_first(ev, appended, up) == rollover_notifications(ev, up)

\* handle_rollover_completed from append_event on: an append that fails ends
\* the handler.
rollover_persisted(ev, appended, up) ==
    IF ~appended.ok
    THEN [sent |-> <<>>, result |-> appended]
    ELSE rollover_notifications(ev, up)

\* handle_rollover_completed up to the event: the cfd is loaded and rolled
\* over; a failure ends the handler.
LoadAndRollOver(m, db_ok) ==
    /\ "auto_rollover" \notin crashed
    /\ rollover_pending = None
    /\ m \in rollover_inbox /\ m.kind = "RolloverCompleted"
    /\ Len(events) < MaxRolloverLog
    /\ rollover_inbox' = rollover_inbox \ {m}
    /\ LET loaded == IF db_ok THEN load_cfd(m.order_id) ELSE Err("database error")
           panicked == loaded.ok /\ loaded.val = Panic
           rolled == IF loaded_cfd(loaded)
                     THEN roll_over(loaded.val, rollover_result(m.completed))
                     ELSE loaded
       IN  /\ rollover_pending' = IF loaded_cfd(loaded) /\ rolled.ok
                                  THEN Some(rolled.val) ELSE None
           /\ crashed' = IF panicked THEN crashed \cup {"auto_rollover"} ELSE crashed
           /\ last' = IF loaded_cfd(loaded) /\ rolled.ok
                      THEN NoRequest
                      ELSE [msg |-> "RolloverCompleted", order_id |-> m.order_id,
                            stage |-> IF loaded_cfd(loaded) THEN "roll_over" ELSE "load_cfd",
                            appended |-> FALSE, sent |-> <<>>,
                            result |-> IF panicked THEN Err("panicked") ELSE rolled]
    /\ UNCHANGED <<fold_vars, db_vars, taker_vars, rollover_actors, actors, spawned>>

\* handle_rollover_completed from the event on: the event is appended and
\* the projection, the monitor and the oracle are notified.
AppendAndNotify(db_ok, up) ==
    /\ rollover_pending # None
    /\ LET ev == rollover_pending[1]
           appended == IF db_ok THEN append_event(ev) ELSE Err("database error")
           out == rollover_persisted(ev, appended, up)
       IN  /\ events' = IF appended.ok THEN appended.val ELSE events
           /\ appended_by' = IF appended.ok
                             THEN Append(appended_by, "auto_rollover")
                             ELSE appended_by
           /\ last' = [msg |-> "RolloverCompleted", order_id |-> ev.id,
                       stage |-> "append_event", event |-> ev, up |-> up,
                       appended |-> appended.ok, sent |-> out.sent, result |-> out.result]
    /\ rollover_pending' = None
    /\ UNCHANGED <<fold_vars, cfds, taker_vars, rollover_actors, rollover_inbox,
                   actors, spawned, crashed>>

RolloverNext ==
    \/ \E e \in CfdEvent : PersistTakerEvent([id |-> dummy_row.id, event |-> e])
    \/ \E completed \in DlcCompleted : RolloverProtocolCompletes(completed)
    \/ \E m \in rollover_inbox, db_ok \in BOOLEAN : LoadAndRollOver(m, db_ok)
    \/ \E db_ok \in BOOLEAN, up \in Availability : AppendAndNotify(db_ok, up)

RolloverSpec == RolloverInit /\ [][RolloverNext]_vars

\* ---------------------------------------------------------- SupervisorSpec

\* SupervisorSpec runs one supervisor::Actor and the instances of its child.
\* cfd holds the supervisor (the restart policy it was constructed with),
\* spawned the number of instances constructed, actors the instances that are
\* attached and running, taker_inbox the Stopped messages on their way to the
\* supervisor, es what the Stopped handler did, call by call.

\* The reasons a child gives when it stops.
Reasons == { "connection lost", "stream ended", "shutdown" }

\* Actor::new: the supervisor with its restart policy, not started yet.
SupervisorInit ==
    /\ es = <<>>
    /\ cfd \in { [restart_policy |-> p] : p \in [Reasons -> BOOLEAN] }
    /\ SystemInit

\* Actor::spawn_new: constructs an instance of the child and attaches it.
spawn_new(st) ==
    [spawned |-> st.spawned + 1,
     actors |-> st.actors \cup {[kind |-> "supervised", n |-> st.spawned + 1]}]

\* The Stopped handler as it would be if it did not ask the policy.
handle_stopped_unconditionally(st, should_restart) == spawn_new(st)

\* Actor::handle(Stopped), after the policy was asked.
handle_stopped(st, should_restart) ==
    IF should_restart THEN spawn_new(st) ELSE st

\* Actor::started
Started ==
    /\ spawned = 0
    /\ LET out == spawn_new([spawned |-> spawned, actors |-> actors])
       IN  spawned' = out.spawned /\ actors' = out.actors
    /\ UNCHANGED <<fold_vars, db_vars, taker_vars, rollover_vars, crashed, last>>

\* An instance of the child stops and tells the supervisor why.
ChildStops(a, reason) ==
    /\ a \in actors
    /\ actors' = actors \ {a}
    /\ taker_inbox' = taker_inbox \cup {[reason |-> reason, from |-> a.n]}
    /\ UNCHANGED <<fold_vars, db_vars, current_order, setup_actors,
                   collab_settlement_actors, pm_inbox, rollover_vars, spawned,
                   crashed, last>>

\* Actor::handle(Stopped)
HandleStopped(m) ==
    /\ m \in taker_inbox
    /\ LET should_restart == cfd.restart_policy[m.reason]
           out == handle_stopped([spawned |-> spawned, actors |-> actors], should_restart)
       IN  /\ out.spawned <= MaxInstances
           /\ spawned' = out.spawned
           /\ actors' = out.actors
           /\ es' = Append(es, [reason |-> m.reason, spawned |-> out.spawned,
                                attached |-> out.actors \ actors])
    /\ taker_inbox' = taker_inbox \ {m}
    /\ UNCHANGED <<cfd, db_vars, current_order, setup_actors,
                   collab_settlement_actors, pm_inbox, rollover_vars, crashed, last>>

SupervisorNext ==
    \/ Started
    \/ \E a \in actors, reason \in Reasons : ChildStops(a, reason)
    \/ \E m \in taker_inbox : HandleStopped(m)

SupervisorSpec == SupervisorInit /\ [][SupervisorNext]_vars

\* ---------------------------------------------------------- ConnectionSpec

\* ConnectionSpec runs maker_inc_connections::Actor. cfd holds the actor
\* (write_connections, the send its handler awaits, the number of TakerMessages
\* it has finished), events the TakerMessages submitted to its mailbox in the
\* order they arrived, actors and spawned the send_to_socket actors, and
\* taker_inbox what was written to the socket of each taker, in order.

\* handle_taker_message: the wire message of each TakerCommand.
to_wire ==
    [SendOrder |-> "CurrentOrder",
     NotifyInvalidOrderId |-> "InvalidOrderId",
     NotifyOrderAccepted |-> "ConfirmOrder",
     NotifyOrderRejected |-> "RejectOrder",
     NotifySettlementAccepted |-> "ConfirmSettlement",
     NotifySettlementRejected |-> "RejectSettlement",
     Protocol |-> "Protocol",
     NotifyRollOverAccepted |-> "ConfirmRollOver",
     NotifyRollOverRejected |-> "RejectRollOver",
     RollOverProtocol |-> "RollOverProtocol"]

\* send_to_taker as it would be if it took the connection of any taker.
send_to_taker_any(write_connections, taker_id) ==
    IF \A t \in DOMAIN write_connections : write_connections[t] = None
    THEN Err("no connection to taker_id")
    ELSE Ok(CHOOSE a \in { write_connections[t][1] : t \in
                { u \in DOMAIN write_connections : write_connections[u] # None } } :
                \A t \in DOMAIN write_connections :
                    write_connections[t] # None => write_connections[t][1].n <= a.n)

\* Actor::send_to_taker: the connection the message goes to.
send_to_taker(write_connections, taker_id) ==
    IF write_connections[taker_id] = None
    THEN Err("no connection to taker_id")
    ELSE Ok(write_connections[taker_id][1])

\* Actor::new
ConnectionInit ==
    /\ es = <<>>
    /\ cfd = [write_connections |-> [t \in 1..MaxActors |-> None],
              sending |-> None, handled |-> 0]
    /\ cfds = <<>>
    /\ events = <<>>
    /\ appended_by = <<>>
    /\ current_order = None
    /\ setup_actors = [o \in OrderIds |-> None]
    /\ collab_settlement_actors = [o \in OrderIds |-> None]
    /\ rollover_actors = [o \in OrderIds |-> None]
    /\ actors = {}
    /\ spawned = 0
    /\ taker_inbox = [t \in 1..MaxActors |-> <<>>]
    /\ rollover_inbox = {}
    /\ pm_inbox = None
    /\ rollover_pending = None
    /\ crashed = {}
    /\ last = NoRequest

\* Actor::handle_new_connection: the taker gets a fresh id and a
\* send_to_socket actor of its own.
NewConnection ==
    /\ cfd.sending = None
    /\ spawned < MaxActors
    /\ LET addr == [kind |-> "send_to_socket", taker_id |-> spawned + 1, n |-> spawned + 1]
       IN  /\ actors' = actors \cup {addr}
           /\ cfd' = [cfd EXCEPT !.write_connections[spawned + 1] = Some(addr)]
    /\ spawned' = spawned + 1
    /\ UNCHANGED <<es, db_vars, taker_vars, rollover_vars, crashed, last>>

\* A TakerMessage arrives in the mailbox of the actor.
SubmitTakerMessage(taker_id, command) ==
    /\ Len(events) < MaxMessages
    /\ events' = Append(events, [taker_id |-> taker_id, command |-> command])
    /\ UNCHANGED <<fold_vars, cfds, appended_by, taker_vars, rollover_vars, actor_vars>>

\* Handler<TakerMessage>::handle up to the await of conn.send: the oldest
\* message of the mailbox is taken; without a connection the error is logged
\* and the message is done with.
HandleTakerMessage ==
    /\ cfd.sending = None
    /\ cfd.handled < Len(events)
    /\ LET msg == events[cfd.handled + 1]
           conn == send_to_taker(cfd.write_connections, msg.taker_id)
       IN  cfd' = IF conn.ok
                  THEN [cfd EXCEPT !.sending = Some([seq |-> cfd.handled + 1,
                                                     to |-> conn.val,
                                                     msg |-> to_wire[msg.command]])]
                  ELSE [cfd EXCEPT !.handled = @ + 1]
    /\ UNCHANGED <<es, db_vars, taker_vars, rollover_vars, actor_vars>>

\* conn.send(msg).await returns: the send_to_socket actor wrote the message
\* to its socket, or failed to; the handler ends.
SendCompletes(written) ==
    /\ cfd.sending # None
    /\ written => cfd.sending[1].to \in actors
    /\ LET s == cfd.sending[1]
       IN  taker_inbox' =
               IF written
               THEN [taker_inbox EXCEPT ![s.to.taker_id] =
                        Append(@, [seq |-> s.seq, msg |-> s.msg])]
               ELSE taker_inbox
    /\ cfd' = [cfd EXCEPT !.sending = None, !.handled = @ + 1]
    /\ UNCHANGED <<es, db_vars, current_order, setup_actors,
                   collab_settlement_actors, pm_inbox, rollover_vars, actor_vars>>

\* The send_to_socket actor of a taker stops, as it does when the taker has
\* disconnected; its entry stays in write_connections.
WriterStops(taker_id) ==
    /\ cfd.write_connections[taker_id] # None
    /\ cfd.write_connections[taker_id][1] \in actors
    /\ actors' = actors \ {cfd.write_connections[taker_id][1]}
    /\ UNCHANGED <<fold_vars, db_vars, taker_vars, rollover_vars, spawned, crashed, last>>

\* Actor::handle_broadcast_order over the connections in the order conns in
\* which write_connections.values() yields them: the takers the order was
\* handed to, and the result of the loop. do_send_async fails on an address
\* whose actor has stopped, and `?` leaves the loop there.
RECURSIVE handle_broadcast_order(_, _)
handle_broadcast_order(conns, running) ==
    IF conns = <<>>
    THEN [delivered |-> {}, result |-> Ok("sent")]
    ELSE IF Head(conns) \notin running
         THEN [delivered |-> {}, result |-> Err("Disconnected")]
         ELSE LET rest == handle_broadcast_order(Tail(conns), running)
              IN  [delivered |-> {Head(conns).taker_id} \cup rest.delivered,
                   result |-> rest.result]

\* Handler<BroadcastOrder>::handle: the order is sent to the connections in
\* the order the map yields them, which is any order; log_error! logs a
\* failure and the actor goes on.
BroadcastOrder ==
    /\ cfd.sending = None
    /\ LET registered == { t \in 1..MaxActors : cfd.write_connections[t] # None }
           values == { cfd.write_connections[t][1] : t \in registered }
       IN  \E conns \in { c \in [1..Cardinality(values) -> values] :
                             \A i, j \in DOMAIN c : c[i] = c[j] => i = j } :
              LET out == handle_broadcast_order(conns, actors)
              IN  last' = [msg |-> "BroadcastOrder",
                           running |-> { a.taker_id : a \in values \cap actors },
                           delivered |-> out.delivered,
                           result |-> out.result]
    /\ UNCHANGED <<fold_vars, db_vars, taker_vars, rollover_vars, actors, spawned, crashed>>

ConnectionNext ==
    \/ NewConnection
    \/ \E taker_id \in 1..MaxActors, command \in {"SendOrder", "NotifyOrderAccepted"} :
          SubmitTakerMessage(taker_id, command)
    \/ HandleTakerMessage
    \/ \E written \in BOOLEAN : SendCompletes(written)

ConnectionSpec == ConnectionInit /\ [][ConnectionNext]_vars

\* BroadcastSpec is ConnectionSpec with takers that disconnect and orders
\* that are broadcast.
BroadcastNext ==
    \/ ConnectionNext
    \/ \E taker_id \in 1..MaxActors : WriterStops(taker_id)
    \/ BroadcastOrder

BroadcastSpec == ConnectionInit /\ [][BroadcastNext]_vars

\* --------------------------------------------------------- EligibilitySpec

\* EligibilitySpec folds a few events onto a cfd and asks is_rollover_possible
\* at instants around the rollover window. The cfd has the settlement interval
\* of the order it was taken from: 24 hours or 12 hours.

\* The instants the question is asked at, in minutes: around one hour, around
\* thirteen hours and around the expiry of the first Dlc.
Instants == { hours(h) + m : h \in {1, 13, 24}, m \in {-1, 0, 1} }

EligibilityInit ==
    /\ es = <<>>
    /\ cfd \in { new([dummy_row EXCEPT !.settlement_interval = hours(h)]) : h \in {12, 24} }
    /\ SystemInit

\* The next event of the cfd is applied.
EligibilityApply(e) ==
    /\ Len(es) < MaxEligibilityLog
    /\ cfd # Panic
    /\ es' = Append(es, e)
    /\ cfd' = apply(cfd, e)
    /\ last' = NoRequest
    /\ UNCHANGED <<db_vars, taker_vars, rollover_vars, actors, spawned, crashed>>

\* Cfd::is_rollover_possible(now)
IsRolloverPossible(now) ==
    /\ cfd # Panic
    /\ last' = [msg |-> "is_rollover_possible", order_id |-> cfd.id, arg |-> now,
                result |-> is_rollover_possible(cfd, now), before |-> cfd]
    /\ UNCHANGED <<fold_vars, db_vars, taker_vars, rollover_vars, actors, spawned, crashed>>

EligibilityNext ==
    \/ \E e \in CfdEvent : EligibilityApply(e)
    \/ \E now \in Instants : IsRolloverPossible(now)

EligibilitySpec == EligibilityInit /\ [][EligibilityNext]_vars

\* ----------------------------------------------- claims about the actors

\* The protocol actors that are live for a cfd.
LiveFor(id) == { a \in actors : a.order_id = id }

\* C1: at every instant and for every cfd id, at most one protocol actor
\* (setup, rollover or collaborative settlement) is live.
C1_OneProtocolActorPerCfd ==
    \A id \in OrderIds : Cardinality(LiveFor(id)) <= 1

\* A protocol actor of a kind is live under an order id.
InProgress(kind, o) == \E a \in actors : a.kind = kind /\ a.key = o

\* C2: a TakeOffer (ProposeSettlement) for an order id that has a live setup
\* (collaborative settlement) actor is rejected with the already-in-progress
\* error, inserts no cfd row, spawns no actor and leaves the address maps as
\* they are; so at most one actor of a kind is live under an order id.
C2_SecondRequestRejected ==
    [][ \A o \in OrderIds :
          /\ (InProgress("setup", o) /\ last'.msg = "TakeOffer" /\ last'.order_id = o) =>
                /\ last'.result = Err("Contract setup for order is already in progress")
                /\ UNCHANGED <<db_vars, actors, spawned, setup_actors,
                               collab_settlement_actors, rollover_actors>>
          /\ (InProgress("collab_settlement", o)
                /\ last'.msg = "ProposeSettlement" /\ last'.order_id = o) =>
                /\ last'.result = Err("Settlement for order is already in progress")
                /\ UNCHANGED <<db_vars, actors, spawned, setup_actors,
                               collab_settlement_actors, rollover_actors>>
          /\ \A kind \in {"setup", "collab_settlement"} :
                Cardinality({ a \in actors' : a.kind = kind /\ a.key = o }) <= 1 ]_vars

\* C2 witness: a TakeOffer was just rejected because the setup actor of its
\* order id is live.
C2_Witness ==
    /\ last.msg = "TakeOffer"
    /\ last.result = Err("Contract setup for order is already in progress")
    /\ InProgress("setup", last.order_id)
    /\ Len(cfds) = 1

\* C3: every row of the event log was appended by the process manager.
C3_ProcessManagerSoleAppender ==
    \A i \in 1..Len(appended_by) : appended_by[i] = "process_manager"

\* ------------------------------------------------- claims about the fold

\* The gate of rollover and collaborative settlement, read off the fields of
\* the aggregate.
Gate(c) ==
    /\ c.lock_finality
    /\ ~c.commit_finality
    /\ ~(c.cet_finality \/ c.refund_finality \/ c.collaborative_settlement_finality)
    /\ c.cet = None

\* The names of the events of a list.
Names(evs) == { evs[i].name : i \in 1..Len(evs) }

ClosingEventNames ==
    { "CommitConfirmed", "CetConfirmed", "RefundConfirmed",
      "CollaborativeSettlementConfirmed", "OracleAttestedPriorCetTimelock",
      "OracleAttestedPostCetTimelock" }

\* C4: whenever the gate is false, start_rollover, roll_over,
\* start_collaborative_settlement_taker and settle_collaboratively all return
\* an error, whatever their arguments; and start_rollover fails once a
\* CommitConfirmed, CetConfirmed, RefundConfirmed,
\* CollaborativeSettlementConfirmed or OracleAttested* event has been applied.
C4_GatedCommandsFail ==
    cfd # Panic =>
        /\ ~Gate(cfd) =>
              /\ ~start_rollover(cfd).ok
              /\ \A r \in RolloverResults : ~roll_over(cfd, r).ok
              /\ \A p \in Payouts : ~start_collaborative_settlement_taker(cfd, 1, p).ok
              /\ \A s \in SettlementCompleted : ~settle_collaboratively(cfd, s).ok
        /\ (Names(es) \cap ClosingEventNames # {}) => ~start_rollover(cfd).ok

\* C4 witness: a locked CFD with a Dlc whose commit transaction got confirmed.
C4_Witness ==
    /\ cfd # Panic
    /\ cfd.lock_finality /\ cfd.dlc # None /\ cfd.commit_finality
    /\ ~start_rollover(cfd).ok

\* The Dlc of the last ContractSetupCompleted or RolloverCompleted of a list.
RECURSIVE LastDlc(_)
LastDlc(evs) ==
    IF evs = <<>> THEN None
    ELSE LET e == evs[Len(evs)]
         IN  IF e.name \in {"ContractSetupCompleted", "RolloverCompleted"}
             THEN Some(e.dlc)
             ELSE LastDlc(SubSeq(evs, 1, Len(evs) - 1))

\* C5 as stated: start_rollover succeeds if and only if the gate holds.
C5_StartRolloverIffGate ==
    cfd # Panic => (start_rollover(cfd).ok <=> Gate(cfd))

\* C5 as amended: start_rollover succeeds if and only if the gate holds and a
\* Dlc is present, and then returns the rollover parameters, the Dlc of the
\* latest setup or rollover and the settlement interval of the static row.
C5_StartRolloverIffGateAndDlc ==
    cfd # Panic =>
        /\ start_rollover(cfd).ok <=> (Gate(cfd) /\ LastDlc(es) # None)
        /\ start_rollover(cfd).ok =>
              /\ Some(start_rollover(cfd).val.dlc) = LastDlc(es)
              /\ start_rollover(cfd).val.settlement_interval = dummy_row.settlement_interval
              /\ start_rollover(cfd).val.params =
                    [price |-> dummy_row.initial_price, quantity |-> dummy_row.quantity,
                     leverage |-> dummy_row.leverage,
                     refund_timelock |-> 9 * whole_hours(dummy_row.settlement_interval),
                     fee_rate |-> 1]

\* C5 witness: the gate holds, a Dlc is present and start_rollover succeeds
\* after a rollover already replaced the Dlc once.
C5_Witness ==
    /\ cfd # Panic
    /\ Gate(cfd)
    /\ "RolloverCompleted" \in Names(es)
    /\ start_rollover(cfd).ok

\* C6: every event a command returns in a reachable aggregate state can be
\* applied to that state, apply returning an aggregate.
C6_FoldClosedUnderCommands ==
    cfd # Panic => \A e \in CommandEvents(cfd) : apply(cfd, e.event) # Panic

\* Another static row to rehydrate: the maker's short position of another cfd.
other_row ==
    [id |-> 2, position |-> "Short", initial_price |-> 50000, leverage |-> 1,
     settlement_interval |-> hours(12), quantity |-> 500,
     counterparty_network_identity |-> "taker", role |-> "Maker"]

\* C7: the aggregate built by applying the events one by one to a new cfd
\* equals the aggregate rehydrated from the static row and the whole list;
\* and for another static row, rehydrating es ++ [e] equals applying e to the
\* rehydrated es wherever the fold of es is defined.
C7_IncrementalEqualsRefold ==
    /\ cfd = rehydrate(dummy_row, es)
    /\ Len(es) > 0 =>
          LET before == rehydrate(other_row, SubSeq(es, 1, Len(es) - 1))
          IN  rehydrate(other_row, es) =
                  IF before = Panic THEN Panic ELSE apply(before, es[Len(es)])

\* C7 witness: a full-length list folded without a panic.
C7_Witness ==
    /\ Len(es) = MaxEvents
    /\ cfd # Panic
    /\ cfd.dlc # None /\ cfd.lock_finality

\* C8: the version of the aggregate is the number of events folded.
C8_VersionCountsEvents ==
    cfd # Panic => cfd.version = Len(es)

\* C8 witness: events of arms that change nothing else were folded.
C8_Witness ==
    /\ cfd # Panic
    /\ Len(es) = MaxEvents
    /\ Names(es) \cap {"OfferRejected", "ContractSetupFailed"} # {}

MonotonicFlags ==
    { "lock_finality", "commit_finality", "refund_finality", "cet_finality",
      "collaborative_settlement_finality", "cet_timelock_expired",
      "refund_timelock_expired" }

\* C9: a finality or timelock flag that is set stays set whatever event is
\* applied next.
C9_FlagsMonotonic ==
    [][ \A f \in MonotonicFlags :
          (cfd # Panic /\ cfd' # Panic /\ cfd[f]) => cfd'[f] ]_vars

\* C9 witness: every flag is set one after the other in some fold.
C9_Witness ==
    /\ cfd # Panic
    /\ Len(es) = MaxEvents
    /\ es[1].name \in {"LockConfirmed", "RefundTimelockConfirmed", "CetConfirmed"}
    /\ cfd[CASE es[1].name = "LockConfirmed" -> "lock_finality"
             [] es[1].name = "RefundTimelockConfirmed" -> "refund_timelock_expired"
             [] es[1].name = "CetConfirmed" -> "cet_finality"]

FinalEventNames ==
    { "CetConfirmed", "RefundConfirmed", "CollaborativeSettlementConfirmed" }

\* C10: the CFD is final exactly if a CetConfirmed, RefundConfirmed or
\* CollaborativeSettlementConfirmed event is among the events folded.
C10_FinalIffFinalEvent ==
    cfd # Panic => (is_final(cfd) <=> Names(es) \cap FinalEventNames # {})

\* C10 witness: a final CFD to which further events were applied.
C10_Witness ==
    /\ cfd # Panic
    /\ Len(es) = MaxEvents
    /\ es[1].name \in FinalEventNames
    /\ is_final(cfd)

\* ------------------------------------------- claims about the commands

SetupEventNames == { "ContractSetupCompleted", "OfferRejected", "ContractSetupFailed" }

\* The log the last command ran on.
LogBefore == SubSeq(es, 1, last.before.version)

\* C11: start_contract_setup and setup_contract fail whenever the version of
\* the aggregate is greater than 0, so a setup outcome is recorded only as the
\* first event of a log and at most once, also when SetupCompleted arrives
\* again.
C11_SetupOnlyAtVersionZero ==
    /\ \A i \in 2..Len(es) : es[i].name \notin SetupEventNames
    /\ (cfd # Panic /\ cfd.version > 0) =>
          /\ ~start_contract_setup(cfd).ok
          /\ \A completed \in DlcCompleted : ~setup_contract(cfd, completed).ok
    /\ (last.msg \in {"start_contract_setup", "setup_contract"}
          /\ last.before.version > 0) => (~last.result.ok /\ cfd = last.before)

\* C11 witness: SetupCompleted arrived again after a setup outcome was
\* recorded, and setup_contract failed.
C11_Witness ==
    /\ last.msg = "setup_contract"
    /\ last.arg.outcome = "Succeeded"
    /\ ~last.result.ok
    /\ Len(es) > 0 /\ es[1].name = "ContractSetupCompleted"

C13_RolloverReplacesDlcOnly ==
    [][ (cfd # Panic /\ Len(es') = Len(es) + 1
            /\ es'[Len(es')].name = "RolloverCompleted") =>
          cfd' = [cfd EXCEPT !.version = cfd.version + 1,
                             !.dlc = Some(es'[Len(es')].dlc)] ]_vars

\* C13 witness: a rollover replaced the Dlc of a setup by another one.
C13_Witness ==
    /\ cfd # Panic
    /\ Len(es) = MaxEvents
    /\ es[1].name = "ContractSetupCompleted"
    /\ es[MaxEvents].name = "RolloverCompleted"
    /\ es[MaxEvents].dlc # es[1].dlc
    /\ cfd.dlc = Some(es[MaxEvents].dlc)

CetTimelockEventNames ==
    { "CetTimelockConfirmedPriorOracleAttestation",
      "CetTimelockConfirmedPostOracleAttestation" }

AttestationEventNames ==
    { "OracleAttestedPriorCetTimelock", "OracleAttestedPostCetTimelock" }

\* C14: on a cfd that is not final, decrypt_cet returns no event when the Dlc
\* is absent or holds no CETs for the attested event; for an attestation the
\* Dlc holds a CET for, it emits OracleAttestedPostCetTimelock when a
\* CetTimelockConfirmed* event is in the log (cet_timelock_expired is set) and
\* OracleAttestedPriorCetTimelock with the signed commit transaction otherwise.
C14_AttestationAgainstTimelock ==
    (last.msg = "decrypt_cet" /\ ~is_final(last.before)) =>
        LET c == last.before
            expired == Names(LogBefore) \cap CetTimelockEventNames # {}
        IN  /\ c.cet_timelock_expired <=> expired
            /\ (c.dlc = None \/ last.arg.id # settlement_event_id(c.dlc[1])) =>
                  last.result = Ok(None)
            /\ (c.dlc # None /\ last.arg.id = settlement_event_id(c.dlc[1])
                  /\ last.arg.in_range) =>
                  /\ last.result.ok /\ last.result.val # None
                  /\ last.result.val[1].id = c.id
                  /\ last.result.val[1].event =
                        IF expired
                        THEN [name |-> "OracleAttestedPostCetTimelock",
                              cet |-> signed_cet_tx(c.dlc[1])]
                        ELSE [name |-> "OracleAttestedPriorCetTimelock",
                              timelocked_cet |-> signed_cet_tx(c.dlc[1]),
                              commit_tx |-> signed_commit_tx(c.dlc[1])]

\* C14 witness: the oracle attested after the CET timelock had expired.
C14_Witness ==
    /\ last.msg = "decrypt_cet"
    /\ last.before.cet_timelock_expired
    /\ last.result.ok /\ last.result.val # None
    /\ last.result.val[1].event.name = "OracleAttestedPostCetTimelock"

RowsOf(id) == { i \in 1..Len(events) : events[i].id = id }

C19_StaticRowRoundTrip ==
    (last.msg = "insert_cfd" /\ last.result.ok) =>
        /\ db_load_cfd(last.order_id).ok
        /\ db_load_cfd(last.order_id).val.row = last.arg

CounterpartyProfit ==
    calculate_profit(last.arg.initial_price, last.arg.closing_price, last.arg.quantity,
                     last.arg.leverage,
                     IF last.arg.position = "Long" THEN "Short" ELSE "Long")

\* C20: whenever calculate_profit succeeds for both positions of a contract,
\* long profit + long margin + short profit + short margin equals long margin
\* + short margin: the two payouts sum to the pool, whether the long side is
\* liquidated or not.
C20_PoolConservation ==
    (last.msg = "calculate_profit" /\ last.result.ok /\ CounterpartyProfit.ok) =>
        LET long_margin == calculate_long_margin(last.arg.initial_price, last.arg.quantity,
                                                 last.arg.leverage)
            short_margin == calculate_short_margin(last.arg.initial_price, last.arg.quantity)
        IN  last.result.val.profit + CounterpartyProfit.val.profit
                + long_margin + short_margin
            = long_margin + short_margin

\* C20 witness: the profit of the short side of a contract whose long side is
\* liquidated was calculated, and the long side has a margin to lose.
C20_Witness ==
    /\ last.msg = "calculate_profit" /\ last.result.ok /\ CounterpartyProfit.ok
    /\ last.arg.position = "Short"
    /\ long_is_liquidated(last.arg.initial_price, last.arg.closing_price, last.arg.leverage)
    /\ last.result.val.profit > 0
    /\ CounterpartyProfit.val.profit = 0 - last.result.val.profit

\* C21: the profit calculate_profit returns is at least minus the margin of
\* the position, for both positions and every closing price; for a long
\* position it is exactly minus the long margin whenever the closing price is
\* at or below price * leverage / (leverage + 1).
C21_LossCappedByMargin ==
    (last.msg = "calculate_profit" /\ last.result.ok) =>
        LET long_margin == calculate_long_margin(last.arg.initial_price, last.arg.quantity,
                                                 last.arg.leverage)
            short_margin == calculate_short_margin(last.arg.initial_price, last.arg.quantity)
            margin == IF last.arg.position = "Long" THEN long_margin ELSE short_margin
        IN  /\ last.result.val.profit >= 0 - margin
            /\ (last.arg.position = "Long"
                  /\ last.arg.closing_price * (last.arg.leverage + 1)
                        <= last.arg.initial_price * last.arg.leverage) =>
                  last.result.val.profit = 0 - long_margin

\* ---------------------------- claims about handle_rollover_completed

\* C22: handle_rollover_completed sends CfdsChanged, StartMonitoring and
\* MonitorAttestation only after append_event has succeeded: whenever it has
\* sent a message, its event is the newest row of the log, and when the load
\* of the cfd, roll_over or append_event failed it has sent nothing.
C22_PersistenceIsCommitPoint ==
    last.msg = "RolloverCompleted" =>
        /\ last.sent # <<>> =>
              /\ last.stage = "append_event" /\ last.appended
              /\ Len(events) > 0 /\ events[Len(events)] = last.event
        /\ ~last.appended => (last.sent = <<>> /\ ~last.result.ok)
        /\ rollover_pending = None

\* C22 witness: append_event failed after the cfd was loaded and rolled over,
\* with the projection, the monitor and the oracle available.
C22_Witness ==
    /\ last.msg = "RolloverCompleted"
    /\ last.stage = "append_event"
    /\ last.event.event.name = "RolloverCompleted"
    /\ ~last.appended
    /\ last.up.projection /\ last.up.monitor /\ last.up.oracle
    /\ last.sent = <<>>

\* C23: once a RolloverCompleted event is persisted, StartMonitoring goes to
\* the monitor and MonitorAttestation to the oracle when these two are
\* available, whether the projection actor is available or not.
C23_MonitoringFollowsRollover ==
    (last.msg = "RolloverCompleted" /\ last.stage = "append_event" /\ last.appended
        /\ last.event.event.name = "RolloverCompleted"
        /\ last.up.monitor /\ last.up.oracle) =>
        /\ \E i \in 1..Len(last.sent) :
              last.sent[i] = StartMonitoring(last.order_id, last.event.event.dlc)
        /\ \E i \in 1..Len(last.sent) :
              last.sent[i] = MonitorAttestation(last.event.event.dlc)

\* The aggregate a handler would have loaded for the event at a position of
\* the log: the fold of the events of the same cfd before it.
FoldBefore(i) ==
    rehydrate(db_load_cfd(events[i].id).val.row,
              events_of(SubSeq(events, 1, i - 1), events[i].id))

\* C30: every RolloverCompleted and every CollaborativeSettlementCompleted
\* event of the log sits where the fold of the events before it satisfies the
\* gate, also when events of the monitor or the oracle are persisted between
\* the load of the cfd and the append.
C30_CompletionsAtGatedPositions ==
    \A i \in 1..Len(events) :
        events[i].event.name \in {"RolloverCompleted", "CollaborativeSettlementCompleted"} =>
            (FoldBefore(i) # Panic /\ Gate(FoldBefore(i)))

\* ------------------------------ claims about the auto-rollover driver

\* Whether the slot of a key holds an actor that is still connected.
Occupied(map, key) == map[key] # None /\ map[key][1] \in actors

\* C24: an AutoRollover tick spawns a rollover actor for a cfd only if the
\* aggregate of that cfd satisfies the gate (lock confirmed, commit not
\* confirmed, not final, not attested) and its slot in the rollover address
\* map is vacant; a slot that is occupied keeps its actor.
C24_RolloverSpawnedOnlyWhenGated ==
    [][ /\ \A a \in actors' \ actors :
              a.kind = "rollover" =>
                  /\ ~Occupied(rollover_actors, a.key)
                  /\ loaded_cfd(load_cfd(a.order_id))
                  /\ Gate(load_cfd(a.order_id).val)
        /\ \A id \in OrderIds :
              (Occupied(rollover_actors, id) /\ spawned' > spawned) =>
                  rollover_actors'[id] = rollover_actors[id] ]_vars

\* C27: when the Stopping of a rollover actor is handled its entry leaves the
\* rollover address map: no slot holds the stopped actor afterwards, and the
\* slot it held is empty, so that get_disconnected, the check the AutoRollover
\* tick makes before it spawns, finds the slot of that cfd vacant again.
C27_StoppedRolloverFreesSlot ==
    [][ \A m \in rollover_inbox :
          (m.kind = "Stopping" /\ m \notin rollover_inbox') =>
              /\ \A id \in OrderIds : rollover_actors'[id] # Some(m.me)
              /\ rollover_actors[m.me.key] = Some(m.me) =>
                    /\ rollover_actors'[m.me.key] = None
                    /\ get_disconnected(rollover_actors', actors', m.me.key).ok ]_vars

\* C27 witness: the first rollover actor of a cfd finished and its Stopping
\* was handled, and a tick spawned the second rollover actor of that cfd.
C27_Witness ==
    /\ Len(cfds) = 1
    /\ spawned = 2
    /\ rollover_inbox = {}
    /\ \A o \in OrderIds : setup_actors[o] = None /\ collab_settlement_actors[o] = None
    /\ \E a \in actors :
          /\ actors = {a}
          /\ a.kind = "rollover" /\ a.n = 2
          /\ rollover_actors[a.key] = Some(a)

\* ------------------------------------------ claims about the command surface

\* C28: apply is the only mutator: a command call that emits no event leaves
\* the aggregate (version, Dlc, cet, commit_tx and all flags) as it was, and
\* one that emits an event changes it by the apply of that event only.
C28_ApplyIsOnlyMutator ==
    [][ cfd' = IF es' = es THEN cfd
               ELSE apply(cfd, es'[Len(es')]) ]_vars

\* C29: start_collaborative_settlement_maker returns an error whenever the
\* lock is not confirmed, the commit is confirmed, the cfd is final or it is
\* attested.
C29_MakerSettlementGated ==
    (last.msg = "start_collaborative_settlement_maker" /\ ~Gate(last.before)) =>
        ~last.result.ok

\* ---------------------------------------------- claims about the supervisor

\* C25: the supervisor spawns one child when it starts and, for each Stopped
\* it handles, constructs and attaches a new child exactly when its restart
\* policy returns true for the reason: the children spawned are one more than
\* the Stopped messages the policy approved, and under the policy that always
\* returns true every handled stop is followed by a new instance.
C25_SpawnsFollowPolicy ==
    LET policy == cfd.restart_policy
        approved == { i \in 1..Len(es) : policy[es[i].reason] }
    IN  /\ spawned = 0 => (es = <<>> /\ actors = {})
        /\ spawned > 0 => spawned = 1 + Cardinality(approved)
        /\ \A i \in 1..Len(es) :
              LET before == IF i = 1 THEN 1 ELSE es[i - 1].spawned
              IN  IF policy[es[i].reason]
                  THEN /\ es[i].spawned = before + 1
                       /\ es[i].attached = {[kind |-> "supervised", n |-> before + 1]}
                  ELSE /\ es[i].spawned = before
                       /\ es[i].attached = {}
        /\ (\A r \in Reasons : policy[r]) =>
              \A i \in 1..Len(es) : es[i].spawned = i + 1

\* C25 witness: the supervisor handled a stop its policy approved and a stop
\* its policy declined, and constructed two instances in all.
C25_Witness ==
    /\ spawned = 2
    /\ Len(es) = 2
    /\ cfd.restart_policy[es[1].reason]
    /\ ~cfd.restart_policy[es[2].reason]
    /\ es[1].attached # {}
    /\ taker_inbox = {}

\* ------------------------------------- claims about the maker's connections

\* C26: the TakerMessages for one taker reach the socket of that taker in the
\* order they were submitted, each as the wire message of its command and only
\* after the send of every earlier message completed; nothing addressed to
\* one taker is written to the socket of another.
C26_PerTakerOrder ==
    /\ \A t \in DOMAIN taker_inbox :
          /\ \A i \in 1..Len(taker_inbox[t]) :
                /\ taker_inbox[t][i].seq <= cfd.handled
                /\ events[taker_inbox[t][i].seq].taker_id = t
                /\ taker_inbox[t][i].msg = to_wire[events[taker_inbox[t][i].seq].command]
          /\ \A i, j \in 1..Len(taker_inbox[t]) :
                i < j => taker_inbox[t][i].seq < taker_inbox[t][j].seq
    /\ cfd.sending # None =>
          /\ cfd.sending[1].seq = cfd.handled + 1
          /\ cfd.sending[1].to.taker_id = events[cfd.sending[1].seq].taker_id

\* C26 witness: two takers are connected, one got two messages and the other
\* got the message submitted between those two.
C26_Witness ==
    /\ Len(taker_inbox[1]) = 2
    /\ Len(taker_inbox[2]) = 1
    /\ taker_inbox[1][1].seq = 1
    /\ taker_inbox[2][1].seq = 2
    /\ taker_inbox[1][2].seq = 3

\* ------------------------------------------ claims about rollover eligibility

\* C31: is_rollover_possible returns Ok only for a cfd that is open and not
\* attested: the lock is confirmed, the commit is not, the cfd is not final and
\* holds no decrypted CET, so that start_rollover succeeds in the same state.
C31_PossibleOnlyWhenOpen ==
    (last.msg = "is_rollover_possible" /\ last.result.ok) =>
        (Gate(cfd) /\ start_rollover(cfd).ok)

\* C32: for a cfd that is not final, not committed and has a Dlc, with its
\* own settlement interval S and expiry E, is_rollover_possible(now) returns
\* AlreadyExpired iff now > E, WasJustRolledOver iff now <= E and
\* E - now > S - 1 hour, and Ok otherwise.
C32_WindowOfOwnInterval ==
    (/\ last.msg = "is_rollover_possible"
     /\ ~is_final(cfd) /\ cfd.commit_tx = None /\ cfd.dlc # None) =>
        LET E == expiry_timestamp(cfd)[1]
            S == cfd.settlement_interval
            now == last.arg
        IN  last.result =
                IF now > E THEN Err("AlreadyExpired")
                ELSE IF E - now > S - hours(1) THEN Err("WasJustRolledOver")
                ELSE Ok("possible")

\* --------------------------------------------- claims about taking an offer

\* C33: every cfd row inserted by TakeOffer eventually receives its first
\* event, whatever the steps after the insert return: no cfd stays at version
\* 0 forever.
C33_InsertedCfdGetsFirstEvent ==
    \A id \in OrderIds :
        has_row(cfds, id) ~> (\E i \in 1..Len(events) : events[i].id = id)

\* ------------------------------------- claims about attestation and finality

\* C34: the decrypted CET of the aggregate is present only if the attestation
\* came after the expiry of the CET timelock: whenever cet is Some, an
\* OracleAttestedPostCetTimelock event was applied.
C34_CetOnlyAfterTimelock ==
    (cfd # Panic /\ cfd.cet # None) =>
        \E i \in 1..Len(es) : es[i].name = "OracleAttestedPostCetTimelock"

\* C35: on a final cfd decrypt_cet, handle_cet_timelock_expired and
\* manual_commit_to_blockchain return an error and no event; and
\* manual_commit_to_blockchain returns an error on a cfd without a Dlc.
C35_FinalCfdEmitsNothing ==
    /\ (/\ last.msg \in {"decrypt_cet", "handle_cet_timelock_expired",
                          "manual_commit_to_blockchain"}
        /\ is_final(last.before)) =>
            (~last.result.ok /\ cfd = last.before)
    /\ (last.msg = "manual_commit_to_blockchain" /\ last.before.dlc = None) =>
            (~last.result.ok /\ cfd = last.before)

\* C35 witness: manual_commit_to_blockchain was refused on a final cfd that
\* has its Dlc.
C35_Witness ==
    /\ last.msg = "manual_commit_to_blockchain"
    /\ is_final(last.before)
    /\ last.before.dlc # None
    /\ ~last.result.ok

\* C36: the log of a cfd holds at most one OracleAttestedPriorCetTimelock or
\* OracleAttestedPostCetTimelock event: decrypt_cet emits none when the
\* aggregate already holds a decrypted CET.
C36_AtMostOneAttestation ==
    /\ Cardinality({ i \in 1..Len(es) : es[i].name \in AttestationEventNames }) <= 1
    /\ (last.msg = "decrypt_cet" /\ is_attested(last.before)) =>
            (last.result.ok => last.result.val = None)

\* ------------------------------------------- claims about the taker's orders

\* C37: the setup actor registered in the setup slot of an order id runs the
\* setup of the cfd with that id, and the row of that cfd is in the database:
\* slot key, row id and the actor's cfd id coincide.
C37_SetupSlotMatchesCfd ==
    \A o \in OrderIds :
        setup_actors[o] # None =>
            (setup_actors[o][1].order_id = o /\ has_row(cfds, o))

\* C38: after the maker announced CurrentOrder(None) the taker holds no
\* current order: a TakeOffer that follows fails, with 'No current order from
\* maker' unless a setup is in progress for the order, inserts no cfd row and
\* spawns no setup actor.
C38_WithdrawnOrderCannotBeTaken ==
    [][ (last.msg = "CurrentOrder" /\ last.order_id = 0) =>
            /\ current_order = None
            /\ last'.msg = "TakeOffer" =>
                  /\ ~last'.result.ok
                  /\ cfds' = cfds
                  /\ spawned' = spawned
                  /\ get_disconnected(setup_actors, actors, last'.order_id).ok =>
                        last'.result = Err("No current order from maker") ]_vars

\* C39: in one AutoRollover tick a cfd that fails to load does not keep the
\* other cfd ids from being examined: in every step of the tick handler (it
\* ends with new rollover actors or with the panic of the load) every id of
\* load_all_cfd_ids whose slot was vacant and whose load succeeds has a new
\* rollover actor registered.
C39_TickExaminesEveryId ==
    [][ (/\ rollover_inbox' = rollover_inbox
         /\ rollover_pending' = rollover_pending
         /\ \/ "auto_rollover" \in crashed' \ crashed
            \/ \E a \in actors' \ actors : a.kind = "rollover") =>
            \A i \in 1..Len(load_all_cfd_ids) :
                LET id == load_all_cfd_ids[i]
                IN  (get_disconnected(rollover_actors, actors, id).ok
                        /\ loaded_cfd(load_cfd(id))) =>
                        /\ rollover_actors'[id] # None
                        /\ rollover_actors'[id] # rollover_actors[id] ]_vars

\* C40: BroadcastOrder hands the order to every taker of write_connections
\* whose connection is running, whatever happened to the send to another
\* taker, and the connection actor keeps running.
C40_BroadcastReachesEveryTaker ==
    last.msg = "BroadcastOrder" =>
        /\ last.running \subseteq last.delivered
        /\ crashed = {}

====
